---------------------------- MODULE Spec2Model ----------------------------
(***************************************************************************)
(* A model of the Data Hub's client I/O service (ioService) and Query      *)
(* service (queryService) over the resource tree.                          *)
(*                                                                         *)
(* The I/O and Query service functions are translated from their C code.   *)
(* The resource tree functions, the data sample functions and the          *)
(* session/kill primitives they call are not part of the two source files; *)
(* they are modelled from the design specification.                        *)
(*                                                                         *)
(* Representation:                                                         *)
(*  - an entry reference is the entry's absolute path (a sequence of       *)
(*    segment names); NULL is a sequence that is no path of the tree;      *)
(*  - a path argument is a sequence of segments (plus, for the Query API,  *)
(*    a flag saying whether the text started with '/');                    *)
(*  - a double is an integer; a string is a sequence of characters;        *)
(*  - an [OUT] parameter holds what the caller's variable held before the  *)
(*    call unless the function writes it.                                  *)
(***************************************************************************)
EXTENDS Integers, Sequences, FiniteSets, TLC

VARIABLES
    tree,       \* the resource tree: absolute path -> entry (or NoEntry)
    session,    \* per client: the IPC session context pointer and whether
                \* the entry it points to is still allocated
    nextRef,    \* the next push-handler reference to hand out
    hub,        \* "running", or "undefined" once undefined behaviour ran
    opCount,    \* number of API calls served so far
    ret,        \* the last API call: its arguments, result and outputs
    reads,      \* the buffer reads started so far, in order: what each has
                \* written to its sink and how often it has called its
                \* completion callback
    dispatch    \* the fan-out in progress, if any: the entry pushed to, the
                \* kind pushed, the position in the handler list, the handlers
                \* invoked so far and the handlers whose removal is pending

vars == <<tree, session, nextRef, hub, opCount, ret, reads, dispatch>>

---------------------------------------------------------------------------
(* Bounds of the model *)

MaxOps == 4
MaxHandlers == 1

(* The number of handler registrations in the specification of the fan-out. *)
MaxFanOut == 2

(* The number of resources that the properties take as a client's cap. *)
ResourceCap == 1

(* The largest size cap of an Observation's buffer. *)
MaxBuffer == 2

---------------------------------------------------------------------------
(* Value domains *)

Clients == {"a"}

(* The apps that may connect: each has its namespace /app/<name>. *)
Apps == {"a", "b"}

Root == <<>>
NULL == <<"NULL">>

AppNs(c) == <<"app", c>>

RelPaths == {<<"x">>, <<"x", "y">>}

ObsRelPaths == {<<"o">>}

(* A path below an Observation path: creating an Observation there makes    *)
(* the entry above it a Namespace, if it does not exist yet.                *)
ObsBelowPaths == {<<"o", "p">>}

X == <<"x">>
XY == <<"x", "y">>

AllPaths ==
    {Root, <<"app">>, <<"obs">>}
      \cup {AppNs(c) : c \in Apps}
      \cup {AppNs(c) \o p : c \in Apps, p \in RelPaths}
      \cup {<<"obs">> \o p : p \in ObsRelPaths \cup ObsBelowPaths}

DataTypes == {"TRIGGER", "BOOLEAN", "NUMERIC", "STRING", "JSON"}

UnitsSet == {<<>>, <<"m">>}

BoolValues == {TRUE, FALSE}
NumValues == {1, 2}
StrValues == {<<"s">>, <<"s", "t">>}

(* A path given to the Query API: its segments, and whether the text began  *)
(* with '/'.                                                                *)
AbsPath(p) == [abs |-> TRUE, path |-> p]
NonAbsPath(p) == [abs |-> FALSE, path |-> p]

---------------------------------------------------------------------------
(* Data samples *)

NoSample == [ts |-> 0, kind |-> "NONE", b |-> FALSE, n |-> 0, s |-> <<>>]

dataSample_CreateTrigger(timestamp) ==
    [ts |-> timestamp, kind |-> "TRIGGER", b |-> FALSE, n |-> 0, s |-> <<>>]

dataSample_CreateBoolean(timestamp, value) ==
    [ts |-> timestamp, kind |-> "BOOLEAN", b |-> value, n |-> 0, s |-> <<>>]

dataSample_CreateNumeric(timestamp, value) ==
    [ts |-> timestamp, kind |-> "NUMERIC", b |-> FALSE, n |-> value, s |-> <<>>]

dataSample_CreateString(timestamp, value) ==
    [ts |-> timestamp, kind |-> "STRING", b |-> FALSE, n |-> 0, s |-> value]

dataSample_CreateJson(timestamp, value) ==
    [ts |-> timestamp, kind |-> "JSON", b |-> FALSE, n |-> 0, s |-> value]

dataSample_GetTimestamp(sample) == sample.ts

dataSample_GetBoolean(sample) == sample.b

dataSample_GetNumeric(sample) == sample.n

dataSample_GetString(sample) == sample.s

dataSample_GetJson(sample) == sample.s

(* le_utf8_Copy(dest, src, destSize, NULL): copies at most destSize - 1      *)
(* characters and a terminator; LE_OVERFLOW when src did not fit.            *)
le_utf8_Copy(src, destSize) ==
    IF Len(src) + 1 <= destSize
    THEN [result |-> "LE_OK", s |-> src]
    ELSE [result |-> "LE_OVERFLOW",
          s |-> SubSeq(src, 1, IF destSize > 0 THEN destSize - 1 ELSE 0)]

(* The decimal digits of a natural number. *)
DigitChars == <<"0", "1", "2", "3", "4", "5", "6", "7", "8", "9">>

RECURSIVE Decimal(_)
Decimal(n) ==
    IF n < 10
    THEN <<DigitChars[n + 1]>>
    ELSE Decimal(n \div 10) \o <<DigitChars[(n % 10) + 1]>>

(* The JSON text of a sample read as the given data type. *)
JsonText(sample, dataType) ==
    CASE dataType = "TRIGGER" -> <<"n", "u", "l", "l">>
      [] dataType = "BOOLEAN" -> IF sample.b THEN <<"t", "r", "u", "e">>
                                 ELSE <<"f", "a", "l", "s", "e">>
      [] dataType = "NUMERIC" -> Decimal(sample.n)
      [] dataType = "STRING" -> <<"\"">> \o sample.s \o <<"\"">>
      [] OTHER -> sample.s

dataSample_ConvertToJson(sample, dataType, valueSize) ==
    le_utf8_Copy(JsonText(sample, dataType), valueSize)

---------------------------------------------------------------------------
(* Resource tree entries *)

NoEntry == [type |-> "NONE", dataType |-> "TRIGGER", units |-> <<>>,
            current |-> NoSample, default |-> NoSample,
            mandatory |-> FALSE, handlers |-> <<>>,
            buffer |-> <<>>, maxCount |-> 0]

NamespaceEntry == [NoEntry EXCEPT !.type = "NAMESPACE"]

PlaceholderEntry == [NoEntry EXCEPT !.type = "PLACEHOLDER"]

InputEntry(dataType, units) ==
    [NoEntry EXCEPT !.type = "INPUT", !.dataType = dataType, !.units = units]

OutputEntry(dataType, units) ==
    [NoEntry EXCEPT !.type = "OUTPUT", !.dataType = dataType, !.units = units,
                    !.mandatory = TRUE]

ObservationEntry == [NoEntry EXCEPT !.type = "OBSERVATION"]

Exists(t, p) == p \in AllPaths /\ t[p].type # "NONE"

Parent(p) == SubSeq(p, 1, Len(p) - 1)

IsPrefix(p, q) == Len(p) <= Len(q) /\ SubSeq(q, 1, Len(p)) = p

Children(t, p) == {q \in AllPaths : Len(q) = Len(p) + 1 /\ Parent(q) = p /\ Exists(t, q)}

resTree_GetRoot == Root

(* Walks path down from the base entry; NULL when a segment is missing. *)
resTree_FindEntry(t, base, path) ==
    IF base # NULL /\ Exists(t, base \o path) THEN base \o path ELSE NULL

(* An absolute path is resolved from the root; any other path is not found. *)
resTree_FindEntryAtAbsolutePath(t, abs, path) ==
    IF abs THEN resTree_FindEntry(t, Root, path) ELSE NULL

resTree_GetEntryType(t, entryRef) ==
    IF entryRef = NULL THEN "NONE" ELSE t[entryRef].type

resTree_IsResource(t, entryRef) == t[entryRef].type # "NAMESPACE"

resTree_GetDataType(t, entryRef) == t[entryRef].dataType

resTree_GetUnits(t, entryRef) == t[entryRef].units

resTree_HasDefault(t, entryRef) == t[entryRef].default # NoSample

(* The current value, or the default while nothing has been pushed. *)
resTree_GetCurrentValue(t, entryRef) ==
    IF t[entryRef].current # NoSample THEN t[entryRef].current
    ELSE t[entryRef].default

(* The tree with every missing entry on the way from base to base/path     *)
(* created as a Namespace. The entry found or created is base \o path.     *)
resTree_GetEntry(t, base, path) ==
    [q \in AllPaths |->
        IF ~Exists(t, q) /\ IsPrefix(q, base \o path) /\ Len(q) > Len(base)
        THEN NamespaceEntry ELSE t[q]]

(* Get/create an Input at base/path: a Namespace or Placeholder found there *)
(* is replaced in place; an Input is left alone; an Output or Observation   *)
(* conflicts (NULL).                                                        *)
resTree_GetInput(t, base, path, dataType, units) ==
    LET t1 == resTree_GetEntry(t, base, path)
        e == base \o path
    IN  CASE t1[e].type \in {"NAMESPACE", "PLACEHOLDER"} ->
               [ref |-> e, t |-> [t1 EXCEPT ![e] = InputEntry(dataType, units)]]
          [] t1[e].type = "INPUT" -> [ref |-> e, t |-> t1]
          [] OTHER -> [ref |-> NULL, t |-> t1]

resTree_GetOutput(t, base, path, dataType, units) ==
    LET t1 == resTree_GetEntry(t, base, path)
        e == base \o path
    IN  CASE t1[e].type \in {"NAMESPACE", "PLACEHOLDER"} ->
               [ref |-> e, t |-> [t1 EXCEPT ![e] = OutputEntry(dataType, units)]]
          [] t1[e].type = "OUTPUT" -> [ref |-> e, t |-> t1]
          [] OTHER -> [ref |-> NULL, t |-> t1]

(* The entries removed when the childless entry e goes: e and every         *)
(* Namespace ancestor (the root excepted) left without any other child.     *)
RECURSIVE EmptiedAncestors(_, _)
EmptiedAncestors(t, e) ==
    LET p == Parent(e)
    IN  IF p # Root /\ t[p].type = "NAMESPACE" /\ Children(t, p) = {e}
        THEN {e} \cup EmptiedAncestors([t EXCEPT ![e] = NoEntry], p)
        ELSE {e}

(* A deletion that demotes an entry with children to a Namespace. *)
resTree_DeleteIO_ToNamespace(t, entryRef) ==
    IF Children(t, entryRef) # {}
    THEN [t EXCEPT ![entryRef] = NamespaceEntry]
    ELSE [q \in AllPaths |-> IF q \in EmptiedAncestors(t, entryRef) THEN NoEntry ELSE t[q]]

(* A deletion that never demotes: the entry goes even while it has children. *)
resTree_DeleteIO_AlwaysRemoves(t, entryRef) ==
    [q \in AllPaths |-> IF q \in EmptiedAncestors(t, entryRef) THEN NoEntry ELSE t[q]]

(* Delete an Input or Output: demoted to a Placeholder while it has          *)
(* children, else removed together with the now-empty Namespace ancestors.  *)
resTree_DeleteIO(t, entryRef) ==
    IF Children(t, entryRef) # {}
    THEN [t EXCEPT ![entryRef] = PlaceholderEntry]
    ELSE LET gone == EmptiedAncestors(t, entryRef)
         IN  [q \in AllPaths |-> IF q \in gone THEN NoEntry ELSE t[q]]

resTree_MarkOptional(t, entryRef) == [t EXCEPT ![entryRef].mandatory = FALSE]

(* The entry's default becomes the sample; ioService.c calls this only     *)
(* when the entry has no default.                                           *)
resTree_SetDefault(t, entryRef, dataType, sample) ==
    [t EXCEPT ![entryRef].default = sample]


(* A push handler is appended to the entry's list (insertion order). *)
resTree_AddPushHandler(t, entryRef, dataType, ref) ==
    [t EXCEPT ![entryRef].handlers = Append(@, [ref |-> ref, kind |-> dataType])]

(* The handler with this reference is unlinked from whichever entry holds it. *)
resTree_RemovePushHandler(t, ref) ==
    [q \in AllPaths |->
        [t[q] EXCEPT !.handlers = SelectSeq(@, LAMBDA h : h.ref # ref)]]

(* Timestamp normalisation: 0 means "now". *)
Stamped(sample, now) ==
    IF sample.ts = 0 THEN [sample EXCEPT !.ts = now] ELSE sample

(* The fan-out stopping after the first matching handler. *)
FanOut_FirstOnly(handlers, dataType, sample) ==
    LET matching == SelectSeq(handlers, LAMBDA h : h.kind = dataType)
    IN  [i \in 1..(IF matching = <<>> THEN 0 ELSE 1) |->
            [ref |-> matching[i].ref, sample |-> sample]]

(* The fan-out walking the list from its newest handler to its oldest. *)
FanOut_NewestFirst(handlers, dataType, sample) ==
    LET matching == SelectSeq(handlers, LAMBDA h : h.kind = dataType)
    IN  [i \in 1..Len(matching) |->
            [ref |-> matching[Len(matching) + 1 - i].ref, sample |-> sample]]

(* The fan-out without the comparison of kinds. *)
FanOut_AnyKind(handlers, dataType, sample) ==
    [i \in 1..Len(handlers) |-> [ref |-> handlers[i].ref, sample |-> sample]]

(* The handlers that a push of the given kind invokes, in list order. *)
FanOut(handlers, dataType, sample) ==
    LET matching == SelectSeq(handlers, LAMBDA h : h.kind = dataType)
    IN  [i \in 1..Len(matching) |-> [ref |-> matching[i].ref, sample |-> sample]]

(* The buffer growing without eviction. *)
Buffered_NoEviction(e, sample) ==
    IF e.type = "OBSERVATION" /\ e.maxCount > 0
    THEN Append(e.buffer, sample)
    ELSE e.buffer

(* The buffer of entry e after the commit of a sample: an Observation with  *)
(* a size cap appends the sample and, when that exceeds the cap, drops its  *)
(* oldest sample.  (No time-window cap is configured.)                      *)
Buffered(e, sample) ==
    IF e.type = "OBSERVATION" /\ e.maxCount > 0
    THEN LET b == Append(e.buffer, sample)
         IN  IF Len(b) > e.maxCount THEN Tail(b) ELSE b
    ELSE e.buffer

(* The push pipeline: stamp, type gate, commit, fan-out.  An Input or       *)
(* Output rejects a sample of another type (the caller is killed); an       *)
(* Observation or Placeholder takes any type and follows it.                *)
resTree_Push(t, entryRef, dataType, sample, now) ==
    LET e == t[entryRef]
        stamped == Stamped(sample, now)
    IN  IF e.type \in {"INPUT", "OUTPUT"} /\ dataType # e.dataType
        THEN [t |-> t, killed |-> TRUE, called |-> <<>>]
        ELSE [t |-> [t EXCEPT ![entryRef].current = stamped,
                              ![entryRef].dataType = dataType,
                              ![entryRef].buffer = Buffered(e, stamped)],
              killed |-> FALSE,
              called |-> FanOut(e.handlers, dataType, stamped)]

(* Administrative creation of an Observation under /obs. *)
resTree_GetObservation(t, path) ==
    LET t1 == resTree_GetEntry(t, Root, <<"obs">> \o path)
        e == <<"obs">> \o path
    IN  IF t1[e].type \in {"NAMESPACE", "PLACEHOLDER"}
        THEN [t1 EXCEPT ![e] = ObservationEntry]
        ELSE t1

(* Administrative setting of the size cap of an Observation's buffer. *)
resTree_SetBufferMaxCount(t, obsEntry, count) ==
    [t EXCEPT ![obsEntry].maxCount = count]

(* A double that may be NaN, as a start time or as an aggregate. *)
NaN == [NoSample EXCEPT !.kind = "NAN"]

Seconds(v) == [NoSample EXCEPT !.kind = "NUMERIC", !.n = v]

IsNaN(d) == d.kind = "NAN"

(* Start times below this are seconds before now, others are seconds since *)
(* the Epoch.                                                               *)
SECONDS_IN_30_YEARS == 946080000

(* The start time that a startAfter other than NaN stands for. *)
ResolvedStart(startAfter, now) ==
    IF startAfter.n < SECONDS_IN_30_YEARS THEN now - startAfter.n ELSE startAfter.n

(* The samples of the buffer that a read with this startAfter selects, in   *)
(* buffer order.                                                            *)
SamplesAfter(buffer, startAfter, now) ==
    IF IsNaN(startAfter) THEN buffer
    ELSE SelectSeq(buffer, LAMBDA sample : sample.ts > ResolvedStart(startAfter, now))

(* One element of a buffer dump: {"t":<timestamp>,"v":<value>}, without     *)
(* the "v" member for a trigger.                                            *)
JsonObject(sample) ==
    <<"{", "\"", "t", "\"", ":">> \o Decimal(sample.ts)
      \o (IF sample.kind = "TRIGGER" THEN <<>>
          ELSE <<",", "\"", "v", "\"", ":">> \o JsonText(sample, sample.kind))
      \o <<"}">>

RECURSIVE JsonElements(_)
JsonElements(samples) ==
    IF samples = <<>> THEN <<>>
    ELSE IF Len(samples) = 1 THEN JsonObject(samples[1])
    ELSE JsonObject(samples[1]) \o <<",">> \o JsonElements(Tail(samples))

(* The buffer dump written to the sink, and the status handed to the        *)
(* completion callback.                                                     *)
resTree_ReadBufferJson(t, obsEntry, startAfter, now) ==
    [sink |-> <<"[">> \o JsonElements(SamplesAfter(t[obsEntry].buffer, startAfter, now))
                \o <<"]">>,
     completion |-> "LE_OK"]

---------------------------------------------------------------------------
(* API calls and their outcomes *)

NoValue == [b |-> FALSE, n |-> 0, s |-> <<>>]

(* The arguments of a call.  tsIn is what the caller's timestamp variable   *)
(* holds when the call is made; idOk is whether the hub can identify the    *)
(* calling client (consulted only while the session has no context).        *)
Call(op, client, abs, path, kind, units, arg, size, tsIn, idOk) ==
    [op |-> op, client |-> client, abs |-> abs, path |-> path, kind |-> kind,
     units |-> units, arg |-> arg, size |-> size, tsIn |-> tsIn, idOk |-> idOk]

NoCall == Call("none", "none", FALSE, <<>>, "NONE", <<>>, NoSample, 0, 0, TRUE)

(* What a call hands back: the return value ("VOID" for a void function),   *)
(* whether the client was killed, the [OUT] parameters as the caller sees   *)
(* them afterwards, the handlers invoked and the handler reference.         *)
Res(result, killed, tsIn) ==
    [result |-> result, killed |-> killed,
     tsOut |-> tsIn, tsWritten |-> FALSE,
     val |-> NoValue, valWritten |-> FALSE, dtOut |-> "NONE",
     called |-> <<>>, href |-> 0,
     sink |-> <<>>, readStarted |-> FALSE, completion |-> "NONE", nan |-> FALSE]

(* The outcome of a call: the tree after it, the session context pointer    *)
(* after it, whether it ran into undefined behaviour, and its results.      *)
Outcome(t, ctx, res) == [t |-> t, ctx |-> ctx, undefined |-> FALSE, res |-> res]

Undefined(ctx, tsIn) ==
    [t |-> tree, ctx |-> ctx, undefined |-> TRUE, res |-> Res("UNDEFINED", FALSE, tsIn)]

---------------------------------------------------------------------------
(* ioService.c *)

(* A binding that gives every new session an empty namespace of its own. *)
GetClientNamespace_FreshSubtree(c, idOk) ==
    IF session[c] # NULL
    THEN [nsRef |-> session[c], ref |-> NULL, t |-> tree, ctx |-> session[c], killed |-> FALSE]
    ELSE IF ~idOk
    THEN [nsRef |-> NULL, ref |-> NULL, t |-> tree, ctx |-> NULL, killed |-> TRUE]
    ELSE [nsRef |-> AppNs(c), ref |-> NULL,
          t |-> [q \in AllPaths |->
                    IF q \in {<<"app">>, AppNs(c)} THEN NamespaceEntry
                    ELSE IF IsPrefix(AppNs(c), q) THEN NoEntry
                    ELSE tree[q]],
          ctx |-> AppNs(c), killed |-> FALSE]

(* The client's namespace entry: the session's context pointer when set;    *)
(* else, when the client can be identified, /app/<app name>, created on the *)
(* way and stored as the context pointer.  idOk: the two lookups succeed.   *)
GetClientNamespace(c, idOk) ==
    IF session[c] # NULL
    THEN [nsRef |-> session[c], ref |-> NULL, t |-> tree, ctx |-> session[c], killed |-> FALSE]
    ELSE IF ~idOk
    THEN [nsRef |-> NULL, ref |-> NULL, t |-> tree, ctx |-> NULL, killed |-> TRUE]
    ELSE LET t1 == resTree_GetEntry(tree, resTree_GetRoot, <<"app">>)
             t2 == resTree_GetEntry(t1, <<"app">>, <<c>>)
         IN  [nsRef |-> AppNs(c), ref |-> NULL, t |-> t2, ctx |-> AppNs(c), killed |-> FALSE]

(* FindResource without the entry type check at line 83. *)
FindResource_AnyEntry(c, path, idOk) ==
    LET ns == GetClientNamespace(c, idOk)
        entryRef == IF ns.nsRef # NULL
                    THEN resTree_FindEntry(ns.t, ns.nsRef, path)
                    ELSE NULL
    IN  [ns EXCEPT !.ref = entryRef]

(* The Input or Output at path in the client's namespace, else NULL. *)
(* The entry reference that FindResource hands to resTree_GetEntryType at  *)
(* line 83: the result of the lookup, or NULL when the namespace or the     *)
(* entry was not found.                                                     *)
FindResource_TypeArg(c, path, idOk) ==
    LET ns == GetClientNamespace(c, idOk)
    IN  IF ns.nsRef # NULL
        THEN resTree_FindEntry(ns.t, ns.nsRef, path)
        ELSE NULL

FindResource(c, path, idOk) ==
    LET ns == GetClientNamespace(c, idOk)
        entryRef == IF ns.nsRef # NULL
                    THEN resTree_FindEntry(ns.t, ns.nsRef, path)
                    ELSE NULL
        entryType == resTree_GetEntryType(ns.t, entryRef)
    IN  IF entryType # "INPUT" /\ entryType # "OUTPUT"
        THEN [ns EXCEPT !.ref = NULL]
        ELSE [ns EXCEPT !.ref = entryRef]

(* io_CreateInput without the comparison of the units at line 133. *)
io_CreateInput_IgnoresUnits(c, path, dataType, units, idOk) ==
    LET ns == GetClientNamespace(c, idOk)
        resRef == IF ns.nsRef # NULL
                  THEN resTree_FindEntry(ns.t, ns.nsRef, path)
                  ELSE NULL
        type == resTree_GetEntryType(ns.t, resRef)
    IN  IF resRef # NULL /\ type = "INPUT"
        THEN IF resTree_GetDataType(ns.t, resRef) # dataType
             THEN Outcome(ns.t, ns.ctx, Res("LE_DUPLICATE", ns.killed, 0))
             ELSE Outcome(ns.t, ns.ctx, Res("LE_OK", ns.killed, 0))
        ELSE IF resRef # NULL /\ type \in {"OUTPUT", "OBSERVATION"}
        THEN Outcome(ns.t, ns.ctx, Res("LE_DUPLICATE", ns.killed, 0))
        ELSE IF ns.nsRef = NULL
        THEN Undefined(ns.ctx, 0)
        ELSE LET got == resTree_GetInput(ns.t, ns.nsRef, path, dataType, units)
             IN  IF got.ref = NULL
                 THEN Outcome(got.t, ns.ctx, Res("LE_FAULT", TRUE, 0))
                 ELSE Outcome(got.t, ns.ctx, Res("LE_OK", ns.killed, 0))

(* io_CreateInput taking a Namespace or a Placeholder for a conflict, *)
(* against lines 147-151.                                             *)
io_CreateInput_NoUpgrade(c, path, dataType, units, idOk) ==
    LET ns == GetClientNamespace(c, idOk)
        resRef == IF ns.nsRef # NULL
                  THEN resTree_FindEntry(ns.t, ns.nsRef, path)
                  ELSE NULL
        type == resTree_GetEntryType(ns.t, resRef)
    IN  IF resRef # NULL /\ type = "INPUT"
        THEN IF resTree_GetDataType(ns.t, resRef) # dataType
                \/ units # resTree_GetUnits(ns.t, resRef)
             THEN Outcome(ns.t, ns.ctx, Res("LE_DUPLICATE", ns.killed, 0))
             ELSE Outcome(ns.t, ns.ctx, Res("LE_OK", ns.killed, 0))
        ELSE IF resRef # NULL
        THEN Outcome(ns.t, ns.ctx, Res("LE_DUPLICATE", ns.killed, 0))
        ELSE IF ns.nsRef = NULL
        THEN Undefined(ns.ctx, 0)
        ELSE LET got == resTree_GetInput(ns.t, ns.nsRef, path, dataType, units)
             IN  IF got.ref = NULL
                 THEN Outcome(got.t, ns.ctx, Res("LE_FAULT", TRUE, 0))
                 ELSE Outcome(got.t, ns.ctx, Res("LE_OK", ns.killed, 0))

io_CreateInput(c, path, dataType, units, idOk) ==
    LET ns == GetClientNamespace(c, idOk)
        resRef == IF ns.nsRef # NULL
                  THEN resTree_FindEntry(ns.t, ns.nsRef, path)
                  ELSE NULL
        type == resTree_GetEntryType(ns.t, resRef)
    IN  IF resRef # NULL /\ type = "INPUT"
        THEN IF resTree_GetDataType(ns.t, resRef) # dataType
                \/ units # resTree_GetUnits(ns.t, resRef)
             THEN Outcome(ns.t, ns.ctx, Res("LE_DUPLICATE", ns.killed, 0))
             ELSE Outcome(ns.t, ns.ctx, Res("LE_OK", ns.killed, 0))
        ELSE IF resRef # NULL /\ type \in {"OUTPUT", "OBSERVATION"}
        THEN Outcome(ns.t, ns.ctx, Res("LE_DUPLICATE", ns.killed, 0))
        ELSE IF ns.nsRef = NULL
        THEN Undefined(ns.ctx, 0)
        ELSE LET got == resTree_GetInput(ns.t, ns.nsRef, path, dataType, units)
             IN  IF got.ref = NULL
                 THEN Outcome(got.t, ns.ctx, Res("LE_FAULT", TRUE, 0))
                 ELSE Outcome(got.t, ns.ctx, Res("LE_OK", ns.killed, 0))

(* io_CreateOutput reporting every existing Output as a conflict. *)
io_CreateOutput_NeverMatches(c, path, dataType, units, idOk) ==
    LET ns == GetClientNamespace(c, idOk)
        resRef == IF ns.nsRef # NULL
                  THEN resTree_FindEntry(ns.t, ns.nsRef, path)
                  ELSE NULL
        type == resTree_GetEntryType(ns.t, resRef)
    IN  IF resRef # NULL /\ type \in {"INPUT", "OUTPUT", "OBSERVATION"}
        THEN Outcome(ns.t, ns.ctx, Res("LE_DUPLICATE", ns.killed, 0))
        ELSE IF ns.nsRef = NULL
        THEN Undefined(ns.ctx, 0)
        ELSE LET got == resTree_GetOutput(ns.t, ns.nsRef, path, dataType, units)
             IN  IF got.ref = NULL
                 THEN Outcome(got.t, ns.ctx, Res("LE_FAULT", TRUE, 0))
                 ELSE Outcome(got.t, ns.ctx, Res("LE_OK", ns.killed, 0))

io_CreateOutput(c, path, dataType, units, idOk) ==
    LET ns == GetClientNamespace(c, idOk)
        resRef == IF ns.nsRef # NULL
                  THEN resTree_FindEntry(ns.t, ns.nsRef, path)
                  ELSE NULL
        type == resTree_GetEntryType(ns.t, resRef)
    IN  IF resRef # NULL /\ type = "OUTPUT"
        THEN IF resTree_GetDataType(ns.t, resRef) # dataType
                \/ units # resTree_GetUnits(ns.t, resRef)
             THEN Outcome(ns.t, ns.ctx, Res("LE_DUPLICATE", ns.killed, 0))
             ELSE Outcome(ns.t, ns.ctx, Res("LE_OK", ns.killed, 0))
        ELSE IF resRef # NULL /\ type \in {"INPUT", "OBSERVATION"}
        THEN Outcome(ns.t, ns.ctx, Res("LE_DUPLICATE", ns.killed, 0))
        ELSE IF ns.nsRef = NULL
        THEN Undefined(ns.ctx, 0)
        ELSE LET got == resTree_GetOutput(ns.t, ns.nsRef, path, dataType, units)
             IN  IF got.ref = NULL
                 THEN Outcome(got.t, ns.ctx, Res("LE_FAULT", TRUE, 0))
                 ELSE Outcome(got.t, ns.ctx, Res("LE_OK", ns.killed, 0))

io_DeleteResource(c, path, idOk) ==
    LET fr == FindResource(c, path, idOk)
    IN  IF fr.ref # NULL
        THEN Outcome(resTree_DeleteIO(fr.t, fr.ref), fr.ctx, Res("VOID", fr.killed, 0))
        ELSE Outcome(fr.t, fr.ctx, Res("VOID", fr.killed, 0))

(* The common body of the io_Push functions once the sample is created:     *)
(* kill the client when the resource is missing, else push.                 *)
PushSample(fr, dataType, sample, now) ==
    IF fr.ref = NULL
    THEN Outcome(fr.t, fr.ctx, Res("VOID", TRUE, 0))
    ELSE LET p == resTree_Push(fr.t, fr.ref, dataType, sample, now)
         IN  Outcome(p.t, fr.ctx,
                     [Res("VOID", fr.killed \/ p.killed, 0) EXCEPT !.called = p.called])

io_PushTrigger(c, path, timestamp, idOk, now) ==
    PushSample(FindResource(c, path, idOk), "TRIGGER",
               dataSample_CreateTrigger(timestamp), now)

io_PushBoolean(c, path, timestamp, value, idOk, now) ==
    PushSample(FindResource(c, path, idOk), "BOOLEAN",
               dataSample_CreateBoolean(timestamp, value), now)

(* io_PushNumeric passing the Boolean type constant to resTree_Push. *)
io_PushNumeric_AsBoolean(c, path, timestamp, value, idOk, now) ==
    PushSample(FindResource(c, path, idOk), "BOOLEAN",
               dataSample_CreateNumeric(timestamp, value), now)

io_PushNumeric(c, path, timestamp, value, idOk, now) ==
    PushSample(FindResource(c, path, idOk), "NUMERIC",
               dataSample_CreateNumeric(timestamp, value), now)

io_PushString(c, path, timestamp, value, idOk, now) ==
    PushSample(FindResource(c, path, idOk), "STRING",
               dataSample_CreateString(timestamp, value), now)

io_PushJson(c, path, timestamp, value, idOk, now) ==
    PushSample(FindResource(c, path, idOk), "JSON",
               dataSample_CreateJson(timestamp, value), now)


(* The common body of the io_Add<Type>PushHandler functions. *)
(* AddPushHandler without the entry type check at line 467. *)
AddPushHandler_AnyRole(c, path, dataType, idOk) ==
    LET ns == GetClientNamespace(c, idOk)
        resRef == IF ns.nsRef # NULL
                  THEN resTree_FindEntry(ns.t, ns.nsRef, path)
                  ELSE NULL
    IN  IF ns.nsRef = NULL
        THEN Outcome(ns.t, ns.ctx, Res("VOID", TRUE, 0))
        ELSE IF resRef = NULL
        THEN Outcome(ns.t, ns.ctx, Res("VOID", TRUE, 0))
        ELSE Outcome(resTree_AddPushHandler(ns.t, resRef, dataType, nextRef), ns.ctx,
                     [Res("VOID", ns.killed, 0) EXCEPT !.href = nextRef])

AddPushHandler(c, path, dataType, idOk) ==
    LET ns == GetClientNamespace(c, idOk)
        resRef == IF ns.nsRef # NULL
                  THEN resTree_FindEntry(ns.t, ns.nsRef, path)
                  ELSE NULL
        entryType == resTree_GetEntryType(ns.t, resRef)
    IN  IF ns.nsRef = NULL
        THEN Outcome(ns.t, ns.ctx, Res("VOID", TRUE, 0))
        ELSE IF resRef = NULL
        THEN Outcome(ns.t, ns.ctx, Res("VOID", TRUE, 0))
        ELSE IF entryType # "INPUT" /\ entryType # "OUTPUT"
        THEN Outcome(ns.t, ns.ctx, Res("VOID", TRUE, 0))
        ELSE Outcome(resTree_AddPushHandler(ns.t, resRef, dataType, nextRef), ns.ctx,
                     [Res("VOID", ns.killed, 0) EXCEPT !.href = nextRef])

(* The common body of the io_Remove<Type>PushHandler functions. *)
RemovePushHandler(handlerRef) ==
    Outcome(resTree_RemovePushHandler(tree, handlerRef), NULL, Res("VOID", FALSE, 0))

(* io_MarkOptional without the entry type test at line 695. *)
io_MarkOptional_AnyResource(c, path, idOk) ==
    LET fr == FindResource(c, path, idOk)
    IN  IF fr.ref = NULL
        THEN Outcome(fr.t, fr.ctx, Res("VOID", TRUE, 0))
        ELSE Outcome(resTree_MarkOptional(fr.t, fr.ref), fr.ctx, Res("VOID", fr.killed, 0))

io_MarkOptional(c, path, idOk) ==
    LET fr == FindResource(c, path, idOk)
    IN  IF fr.ref = NULL
        THEN Outcome(fr.t, fr.ctx, Res("VOID", TRUE, 0))
        ELSE IF resTree_GetEntryType(fr.t, fr.ref) # "OUTPUT"
        THEN Outcome(fr.t, fr.ctx, Res("VOID", TRUE, 0))
        ELSE Outcome(resTree_MarkOptional(fr.t, fr.ref), fr.ctx, Res("VOID", fr.killed, 0))

(* io_Set<Type>Default without the resTree_HasDefault test at line 729. *)
SetDefault_Overwrites(fr, dataType, sample) ==
    IF fr.ref = NULL
    THEN Outcome(fr.t, fr.ctx, Res("VOID", TRUE, 0))
    ELSE IF resTree_GetDataType(fr.t, fr.ref) # dataType
    THEN Outcome(fr.t, fr.ctx, Res("VOID", TRUE, 0))
    ELSE Outcome(resTree_SetDefault(fr.t, fr.ref, dataType, sample), fr.ctx,
                 Res("VOID", fr.killed, 0))

(* io_Set<Type>Default without the data type test at line 725. *)
SetDefault_AnyType(fr, dataType, sample) ==
    IF fr.ref = NULL
    THEN Outcome(fr.t, fr.ctx, Res("VOID", TRUE, 0))
    ELSE IF ~resTree_HasDefault(fr.t, fr.ref)
    THEN Outcome(resTree_SetDefault(fr.t, fr.ref, dataType, sample), fr.ctx,
                 Res("VOID", fr.killed, 0))
    ELSE Outcome(fr.t, fr.ctx, Res("VOID", fr.killed, 0))

(* The common shape of the io_Set<Type>Default functions; each passes its   *)
(* own type and a sample made with timestamp 0.0.                           *)
SetDefault(fr, dataType, sample) ==
    IF fr.ref = NULL
    THEN Outcome(fr.t, fr.ctx, Res("VOID", TRUE, 0))
    ELSE IF resTree_GetDataType(fr.t, fr.ref) # dataType
    THEN Outcome(fr.t, fr.ctx, Res("VOID", TRUE, 0))
    ELSE IF ~resTree_HasDefault(fr.t, fr.ref)
    THEN Outcome(resTree_SetDefault(fr.t, fr.ref, dataType, sample), fr.ctx,
                 Res("VOID", fr.killed, 0))
    ELSE Outcome(fr.t, fr.ctx, Res("VOID", fr.killed, 0))

io_SetBooleanDefault(c, path, value, idOk) ==
    SetDefault(FindResource(c, path, idOk), "BOOLEAN", dataSample_CreateBoolean(0, value))

io_SetNumericDefault(c, path, value, idOk) ==
    SetDefault(FindResource(c, path, idOk), "NUMERIC", dataSample_CreateNumeric(0, value))

io_SetStringDefault(c, path, value, idOk) ==
    SetDefault(FindResource(c, path, idOk), "STRING", dataSample_CreateString(0, value))

io_SetJsonDefault(c, path, value, idOk) ==
    SetDefault(FindResource(c, path, idOk), "JSON", dataSample_CreateJson(0, value))

(* GetCurrentValue without the type check at line 860. *)
GetCurrentValue_NoTypeCheck(t, resRef, dataType) ==
    [sample |-> resTree_GetCurrentValue(t, resRef), killed |-> FALSE]

(* The current value with type check: kills the client and yields NULL when *)
(* the resource has another data type.                                      *)
GetCurrentValue(t, resRef, dataType) ==
    IF resTree_GetDataType(t, resRef) # dataType
    THEN [sample |-> NoSample, killed |-> TRUE]
    ELSE [sample |-> resTree_GetCurrentValue(t, resRef), killed |-> FALSE]

(* io_GetTimestamp without the NULL test at line 896: Ok with no value. *)
io_GetTimestamp_NeverUnavailable(c, path, idOk, tsIn) ==
    LET fr == FindResource(c, path, idOk)
    IN  IF fr.ref = NULL
        THEN Outcome(fr.t, fr.ctx, Res("LE_NOT_FOUND", fr.killed, tsIn))
        ELSE Outcome(fr.t, fr.ctx,
                [Res("LE_OK", fr.killed, tsIn) EXCEPT
                    !.tsOut = dataSample_GetTimestamp(resTree_GetCurrentValue(fr.t, fr.ref)),
                    !.tsWritten = TRUE])

io_GetTimestamp(c, path, idOk, tsIn) ==
    LET fr == FindResource(c, path, idOk)
    IN  IF fr.ref = NULL
        THEN Outcome(fr.t, fr.ctx, Res("LE_NOT_FOUND", fr.killed, tsIn))
        ELSE LET currentValue == resTree_GetCurrentValue(fr.t, fr.ref)
             IN  IF currentValue = NoSample
                 THEN Outcome(fr.t, fr.ctx, Res("LE_UNAVAILABLE", fr.killed, tsIn))
                 ELSE Outcome(fr.t, fr.ctx,
                        [Res("LE_OK", fr.killed, tsIn) EXCEPT
                            !.tsOut = dataSample_GetTimestamp(currentValue),
                            !.tsWritten = TRUE])

io_GetBoolean(c, path, idOk, tsIn) ==
    LET fr == FindResource(c, path, idOk)
    IN  IF fr.ref = NULL
        THEN Outcome(fr.t, fr.ctx, Res("LE_NOT_FOUND", fr.killed, tsIn))
        ELSE LET cv == GetCurrentValue(fr.t, fr.ref, "BOOLEAN")
             IN  IF cv.sample = NoSample
                 THEN Outcome(fr.t, fr.ctx,
                              Res("LE_UNAVAILABLE", fr.killed \/ cv.killed, tsIn))
                 ELSE Outcome(fr.t, fr.ctx,
                        [Res("LE_OK", fr.killed, tsIn) EXCEPT
                            !.val.b = dataSample_GetBoolean(cv.sample),
                            !.valWritten = TRUE])

io_GetNumeric(c, path, idOk, tsIn) ==
    LET fr == FindResource(c, path, idOk)
    IN  IF fr.ref = NULL
        THEN Outcome(fr.t, fr.ctx, Res("LE_NOT_FOUND", fr.killed, tsIn))
        ELSE LET cv == GetCurrentValue(fr.t, fr.ref, "NUMERIC")
             IN  IF cv.sample = NoSample
                 THEN Outcome(fr.t, fr.ctx,
                              Res("LE_UNAVAILABLE", fr.killed \/ cv.killed, tsIn))
                 ELSE Outcome(fr.t, fr.ctx,
                        [Res("LE_OK", fr.killed, tsIn) EXCEPT
                            !.val.n = dataSample_GetNumeric(cv.sample),
                            !.valWritten = TRUE])

io_GetString(c, path, idOk, tsIn, valueSize) ==
    LET fr == FindResource(c, path, idOk)
    IN  IF fr.ref = NULL
        THEN Outcome(fr.t, fr.ctx, Res("LE_NOT_FOUND", fr.killed, tsIn))
        ELSE LET cv == GetCurrentValue(fr.t, fr.ref, "STRING")
             IN  IF cv.sample = NoSample
                 THEN Outcome(fr.t, fr.ctx,
                              Res("LE_UNAVAILABLE", fr.killed \/ cv.killed, tsIn))
                 ELSE LET copy == le_utf8_Copy(dataSample_GetString(cv.sample), valueSize)
                      IN  Outcome(fr.t, fr.ctx,
                            [Res(copy.result, fr.killed, tsIn) EXCEPT
                                !.val.s = copy.s,
                                !.valWritten = TRUE])

(* io_GetJson answering only for resources of type JSON. *)
io_GetJson_JsonOnly(c, path, idOk, tsIn, valueSize) ==
    LET fr == FindResource(c, path, idOk)
    IN  IF fr.ref = NULL
        THEN Outcome(fr.t, fr.ctx, Res("LE_NOT_FOUND", fr.killed, tsIn))
        ELSE IF resTree_GetDataType(fr.t, fr.ref) # "JSON"
        THEN Outcome(fr.t, fr.ctx, Res("LE_FORMAT_ERROR", fr.killed, tsIn))
        ELSE LET currentValue == resTree_GetCurrentValue(fr.t, fr.ref)
             IN  IF currentValue = NoSample
                 THEN Outcome(fr.t, fr.ctx, Res("LE_UNAVAILABLE", fr.killed, tsIn))
                 ELSE LET copy == dataSample_ConvertToJson(currentValue, "JSON", valueSize)
                      IN  Outcome(fr.t, fr.ctx,
                            [Res(copy.result, fr.killed, tsIn) EXCEPT
                                !.val.s = copy.s,
                                !.valWritten = TRUE])

io_GetJson(c, path, idOk, tsIn, valueSize) ==
    LET fr == FindResource(c, path, idOk)
    IN  IF fr.ref = NULL
        THEN Outcome(fr.t, fr.ctx, Res("LE_NOT_FOUND", fr.killed, tsIn))
        ELSE LET currentValue == resTree_GetCurrentValue(fr.t, fr.ref)
             IN  IF currentValue = NoSample
                 THEN Outcome(fr.t, fr.ctx, Res("LE_UNAVAILABLE", fr.killed, tsIn))
                 ELSE LET copy == dataSample_ConvertToJson(currentValue,
                                      resTree_GetDataType(fr.t, fr.ref), valueSize)
                      IN  Outcome(fr.t, fr.ctx,
                            [Res(copy.result, fr.killed, tsIn) EXCEPT
                                !.val.s = copy.s,
                                !.valWritten = TRUE])

---------------------------------------------------------------------------
(* queryService.c *)

(* FindObservation without the entry type test at line 52. *)
FindObservation_AnyType(t, q) ==
    IF q.abs /\ Len(q.path) >= 2 /\ q.path[1] = "obs"
    THEN resTree_FindEntry(t, resTree_GetRoot, q.path)
    ELSE IF q.abs
    THEN NULL
    ELSE resTree_FindEntry(t, resTree_FindEntry(t, resTree_GetRoot, <<"obs">>), q.path)

FindObservation(t, q) ==
    LET entry == IF q.abs /\ Len(q.path) >= 2 /\ q.path[1] = "obs"
                 THEN resTree_FindEntry(t, resTree_GetRoot, q.path)
                 ELSE IF q.abs
                 THEN NULL
                 ELSE resTree_FindEntry(t, resTree_FindEntry(t, resTree_GetRoot, <<"obs">>),
                                        q.path)
    IN  IF entry = NULL THEN NULL
        ELSE IF resTree_GetEntryType(t, entry) # "OBSERVATION" THEN NULL
        ELSE entry

(* query_ReadBufferJson with NaN taken for a negative start time. *)
query_ReadBufferJson_NaNRefused(q, startAfter, now) ==
    LET entryRef == FindObservation(tree, q)
    IN  IF entryRef = NULL
        THEN Outcome(tree, NULL, Res("LE_NOT_FOUND", FALSE, 0))
        ELSE IF IsNaN(startAfter) \/ startAfter.n < 0
        THEN Outcome(tree, NULL, Res("LE_OK", TRUE, 0))
        ELSE LET read == resTree_ReadBufferJson(tree, entryRef, startAfter, now)
             IN  Outcome(tree, NULL,
                    [Res("LE_OK", FALSE, 0) EXCEPT
                        !.readStarted = TRUE,
                        !.sink = read.sink,
                        !.completion = read.completion])

(* query_ReadBufferJson testing startAfter before it looks the path up. *)
query_ReadBufferJson_NegativeFirst(q, startAfter, now) ==
    LET entryRef == FindObservation(tree, q)
    IN  IF ~IsNaN(startAfter) /\ startAfter.n < 0
        THEN Outcome(tree, NULL, Res("LE_OK", TRUE, 0))
        ELSE IF entryRef = NULL
        THEN Outcome(tree, NULL, Res("LE_NOT_FOUND", FALSE, 0))
        ELSE LET read == resTree_ReadBufferJson(tree, entryRef, startAfter, now)
             IN  Outcome(tree, NULL,
                    [Res("LE_OK", FALSE, 0) EXCEPT
                        !.readStarted = TRUE,
                        !.sink = read.sink,
                        !.completion = read.completion])

(* The comparison startAfter < 0 is false for NaN. *)
query_ReadBufferJson(q, startAfter, now) ==
    LET entryRef == FindObservation(tree, q)
    IN  IF entryRef = NULL
        THEN Outcome(tree, NULL, Res("LE_NOT_FOUND", FALSE, 0))
        ELSE IF ~IsNaN(startAfter) /\ startAfter.n < 0
        THEN Outcome(tree, NULL, Res("LE_OK", TRUE, 0))
        ELSE LET read == resTree_ReadBufferJson(tree, entryRef, startAfter, now)
             IN  Outcome(tree, NULL,
                    [Res("LE_OK", FALSE, 0) EXCEPT
                        !.readStarted = TRUE,
                        !.sink = read.sink,
                        !.completion = read.completion])

(* The aggregates return NAN on both of their paths. *)
query_GetMin(q, startTime) ==
    LET entryRef == FindObservation(tree, q)
    IN  IF entryRef = NULL
        THEN Outcome(tree, NULL, [Res("VOID", FALSE, 0) EXCEPT !.nan = TRUE])
        ELSE Outcome(tree, NULL, [Res("VOID", FALSE, 0) EXCEPT !.nan = TRUE])

query_GetMax(q, startTime) ==
    LET entryRef == FindObservation(tree, q)
    IN  IF entryRef = NULL
        THEN Outcome(tree, NULL, [Res("VOID", FALSE, 0) EXCEPT !.nan = TRUE])
        ELSE Outcome(tree, NULL, [Res("VOID", FALSE, 0) EXCEPT !.nan = TRUE])

query_GetMean(q, startTime) ==
    LET entryRef == FindObservation(tree, q)
    IN  IF entryRef = NULL
        THEN Outcome(tree, NULL, [Res("VOID", FALSE, 0) EXCEPT !.nan = TRUE])
        ELSE Outcome(tree, NULL, [Res("VOID", FALSE, 0) EXCEPT !.nan = TRUE])

(* query_GetStdDev answering 0 for an Observation that it finds. *)
query_GetStdDev_Zero(q, startTime) ==
    LET entryRef == FindObservation(tree, q)
    IN  IF entryRef = NULL
        THEN Outcome(tree, NULL, [Res("VOID", FALSE, 0) EXCEPT !.nan = TRUE])
        ELSE Outcome(tree, NULL, Res("VOID", FALSE, 0))

query_GetStdDev(q, startTime) ==
    LET entryRef == FindObservation(tree, q)
    IN  IF entryRef = NULL
        THEN Outcome(tree, NULL, [Res("VOID", FALSE, 0) EXCEPT !.nan = TRUE])
        ELSE Outcome(tree, NULL, [Res("VOID", FALSE, 0) EXCEPT !.nan = TRUE])

(* query_GetDataType without the resTree_IsResource test at line 271. *)
query_GetDataType_NoNamespaceTest(abs, path) ==
    LET entryRef == resTree_FindEntryAtAbsolutePath(tree, abs, path)
    IN  IF entryRef = NULL
        THEN Outcome(tree, NULL, Res("LE_NOT_FOUND", FALSE, 0))
        ELSE Outcome(tree, NULL,
                [Res("LE_OK", FALSE, 0) EXCEPT
                    !.dtOut = resTree_GetDataType(tree, entryRef)])

(* query_GetDataType resolving its path with the creating lookup. *)
query_GetDataType_GetOrCreate(abs, path) ==
    LET t1 == IF abs /\ path \in AllPaths THEN resTree_GetEntry(tree, Root, path) ELSE tree
        entryRef == resTree_FindEntryAtAbsolutePath(t1, abs, path)
    IN  IF entryRef = NULL
        THEN Outcome(t1, NULL, Res("LE_NOT_FOUND", FALSE, 0))
        ELSE IF ~resTree_IsResource(t1, entryRef)
        THEN Outcome(t1, NULL, Res("LE_UNSUPPORTED", FALSE, 0))
        ELSE Outcome(t1, NULL,
                [Res("LE_OK", FALSE, 0) EXCEPT
                    !.dtOut = resTree_GetDataType(t1, entryRef)])

query_GetDataType(abs, path) ==
    LET entryRef == resTree_FindEntryAtAbsolutePath(tree, abs, path)
    IN  IF entryRef = NULL
        THEN Outcome(tree, NULL, Res("LE_NOT_FOUND", FALSE, 0))
        ELSE IF ~resTree_IsResource(tree, entryRef)
        THEN Outcome(tree, NULL, Res("LE_UNSUPPORTED", FALSE, 0))
        ELSE Outcome(tree, NULL,
                [Res("LE_OK", FALSE, 0) EXCEPT
                    !.dtOut = resTree_GetDataType(tree, entryRef)])

query_GetUnits(abs, path, unitsSize) ==
    LET entryRef == resTree_FindEntryAtAbsolutePath(tree, abs, path)
    IN  IF entryRef = NULL
        THEN Outcome(tree, NULL, Res("LE_NOT_FOUND", FALSE, 0))
        ELSE IF ~resTree_IsResource(tree, entryRef)
        THEN Outcome(tree, NULL, Res("LE_UNSUPPORTED", FALSE, 0))
        ELSE LET copy == le_utf8_Copy(resTree_GetUnits(tree, entryRef), unitsSize)
             IN  Outcome(tree, NULL,
                    [Res(copy.result, FALSE, 0) EXCEPT
                        !.val.s = copy.s, !.valWritten = TRUE])

query_GetTimestamp(abs, path, tsIn) ==
    LET entryRef == resTree_FindEntryAtAbsolutePath(tree, abs, path)
    IN  IF entryRef = NULL
        THEN Outcome(tree, NULL, Res("LE_NOT_FOUND", FALSE, tsIn))
        ELSE IF ~resTree_IsResource(tree, entryRef)
        THEN Outcome(tree, NULL, Res("LE_UNSUPPORTED", FALSE, tsIn))
        ELSE LET sampleRef == resTree_GetCurrentValue(tree, entryRef)
             IN  IF sampleRef = NoSample
                 THEN Outcome(tree, NULL, Res("LE_UNAVAILABLE", FALSE, tsIn))
                 ELSE Outcome(tree, NULL,
                        [Res("LE_OK", FALSE, tsIn) EXCEPT
                            !.tsOut = dataSample_GetTimestamp(sampleRef),
                            !.tsWritten = TRUE])

(* query_GetBoolean without the data type test at line 423. *)
query_GetBoolean_NoTypeCheck(abs, path, tsIn) ==
    LET entryRef == resTree_FindEntryAtAbsolutePath(tree, abs, path)
    IN  IF entryRef = NULL
        THEN Outcome(tree, NULL, Res("LE_NOT_FOUND", FALSE, tsIn))
        ELSE IF ~resTree_IsResource(tree, entryRef)
        THEN Outcome(tree, NULL, Res("LE_UNSUPPORTED", FALSE, tsIn))
        ELSE LET sampleRef == resTree_GetCurrentValue(tree, entryRef)
             IN  IF sampleRef = NoSample
                 THEN Outcome(tree, NULL, Res("LE_UNAVAILABLE", FALSE, tsIn))
                 ELSE Outcome(tree, NULL,
                        [Res("LE_OK", FALSE, tsIn) EXCEPT
                            !.tsOut = dataSample_GetTimestamp(sampleRef),
                            !.tsWritten = TRUE,
                            !.val.b = dataSample_GetBoolean(sampleRef),
                            !.valWritten = TRUE])

query_GetBoolean(abs, path, tsIn) ==
    LET entryRef == resTree_FindEntryAtAbsolutePath(tree, abs, path)
    IN  IF entryRef = NULL
        THEN Outcome(tree, NULL, Res("LE_NOT_FOUND", FALSE, tsIn))
        ELSE IF ~resTree_IsResource(tree, entryRef)
        THEN Outcome(tree, NULL, Res("LE_UNSUPPORTED", FALSE, tsIn))
        ELSE LET sampleRef == resTree_GetCurrentValue(tree, entryRef)
             IN  IF sampleRef = NoSample
                 THEN Outcome(tree, NULL, Res("LE_UNAVAILABLE", FALSE, tsIn))
                 ELSE IF resTree_GetDataType(tree, entryRef) # "BOOLEAN"
                 THEN Outcome(tree, NULL, Res("LE_FORMAT_ERROR", FALSE, tsIn))
                 ELSE Outcome(tree, NULL,
                        [Res("LE_OK", FALSE, tsIn) EXCEPT
                            !.tsOut = dataSample_GetTimestamp(sampleRef),
                            !.tsWritten = TRUE,
                            !.val.b = dataSample_GetBoolean(sampleRef),
                            !.valWritten = TRUE])

(* query_GetNumeric without the assignment to *timestampPtr at line 489. *)
query_GetNumeric_NoTimestamp(abs, path, tsIn) ==
    LET entryRef == resTree_FindEntryAtAbsolutePath(tree, abs, path)
    IN  IF entryRef = NULL
        THEN Outcome(tree, NULL, Res("LE_NOT_FOUND", FALSE, tsIn))
        ELSE IF ~resTree_IsResource(tree, entryRef)
        THEN Outcome(tree, NULL, Res("LE_UNSUPPORTED", FALSE, tsIn))
        ELSE LET sampleRef == resTree_GetCurrentValue(tree, entryRef)
             IN  IF sampleRef = NoSample
                 THEN Outcome(tree, NULL, Res("LE_UNAVAILABLE", FALSE, tsIn))
                 ELSE IF resTree_GetDataType(tree, entryRef) # "NUMERIC"
                 THEN Outcome(tree, NULL, Res("LE_FORMAT_ERROR", FALSE, tsIn))
                 ELSE Outcome(tree, NULL,
                        [Res("LE_OK", FALSE, tsIn) EXCEPT
                            !.val.n = dataSample_GetNumeric(sampleRef),
                            !.valWritten = TRUE])

query_GetNumeric(abs, path, tsIn) ==
    LET entryRef == resTree_FindEntryAtAbsolutePath(tree, abs, path)
    IN  IF entryRef = NULL
        THEN Outcome(tree, NULL, Res("LE_NOT_FOUND", FALSE, tsIn))
        ELSE IF ~resTree_IsResource(tree, entryRef)
        THEN Outcome(tree, NULL, Res("LE_UNSUPPORTED", FALSE, tsIn))
        ELSE LET sampleRef == resTree_GetCurrentValue(tree, entryRef)
             IN  IF sampleRef = NoSample
                 THEN Outcome(tree, NULL, Res("LE_UNAVAILABLE", FALSE, tsIn))
                 ELSE IF resTree_GetDataType(tree, entryRef) # "NUMERIC"
                 THEN Outcome(tree, NULL, Res("LE_FORMAT_ERROR", FALSE, tsIn))
                 ELSE Outcome(tree, NULL,
                        [Res("LE_OK", FALSE, tsIn) EXCEPT
                            !.tsOut = dataSample_GetTimestamp(sampleRef),
                            !.tsWritten = TRUE,
                            !.val.n = dataSample_GetNumeric(sampleRef),
                            !.valWritten = TRUE])

query_GetString(abs, path, tsIn, valueSize) ==
    LET entryRef == resTree_FindEntryAtAbsolutePath(tree, abs, path)
    IN  IF entryRef = NULL
        THEN Outcome(tree, NULL, Res("LE_NOT_FOUND", FALSE, tsIn))
        ELSE IF ~resTree_IsResource(tree, entryRef)
        THEN Outcome(tree, NULL, Res("LE_UNSUPPORTED", FALSE, tsIn))
        ELSE LET sampleRef == resTree_GetCurrentValue(tree, entryRef)
             IN  IF sampleRef = NoSample
                 THEN Outcome(tree, NULL, Res("LE_UNAVAILABLE", FALSE, tsIn))
                 ELSE IF resTree_GetDataType(tree, entryRef) # "STRING"
                 THEN Outcome(tree, NULL, Res("LE_FORMAT_ERROR", FALSE, tsIn))
                 ELSE LET copy == le_utf8_Copy(dataSample_GetString(sampleRef), valueSize)
                      IN  Outcome(tree, NULL,
                            [Res(copy.result, FALSE, tsIn) EXCEPT
                                !.tsOut = dataSample_GetTimestamp(sampleRef),
                                !.tsWritten = TRUE,
                                !.val.s = copy.s,
                                !.valWritten = TRUE])

query_GetJson(abs, path, tsIn, valueSize) ==
    LET entryRef == resTree_FindEntryAtAbsolutePath(tree, abs, path)
    IN  IF entryRef = NULL
        THEN Outcome(tree, NULL, Res("LE_NOT_FOUND", FALSE, tsIn))
        ELSE IF ~resTree_IsResource(tree, entryRef)
        THEN Outcome(tree, NULL, Res("LE_UNSUPPORTED", FALSE, tsIn))
        ELSE LET sampleRef == resTree_GetCurrentValue(tree, entryRef)
                 dataType == resTree_GetDataType(tree, entryRef)
             IN  IF sampleRef = NoSample
                 THEN Outcome(tree, NULL, Res("LE_UNAVAILABLE", FALSE, tsIn))
                 ELSE LET copy == IF dataType = "JSON"
                                  THEN le_utf8_Copy(dataSample_GetJson(sampleRef), valueSize)
                                  ELSE dataSample_ConvertToJson(sampleRef, dataType,
                                                                valueSize)
                      IN  Outcome(tree, NULL,
                            [Res(copy.result, FALSE, tsIn) EXCEPT
                                !.tsOut = dataSample_GetTimestamp(sampleRef),
                                !.tsWritten = TRUE,
                                !.val.s = copy.s,
                                !.valWritten = TRUE])

---------------------------------------------------------------------------
(* The state machine *)

(* The session's context pointer refers to an entry that has been removed. *)
Dangling(c) == session[c] # NULL /\ ~Exists(tree, session[c])

(* No fan-out is in progress. *)
NoDispatch ==
    [entry |-> NULL, kind |-> "NONE", pos |-> 0, invoked |-> <<>>, removed |-> {}]

(* The hub is at its event loop (single thread: not inside a fan-out) and   *)
(* serves the next call.                                                    *)
Serving == hub = "running" /\ opCount < MaxOps /\ dispatch = NoDispatch

(* The outcomes of the client-identity lookups; they are made only while    *)
(* the session has no context pointer.                                      *)
IdChoices(c) == IF session[c] = NULL THEN BOOLEAN ELSE {TRUE}

(* A client I/O call is served: the tree and the session context become     *)
(* what the call left; a killed client's session is closed, which discards  *)
(* its context.                                                             *)
ServeIo(c, call, o) ==
    /\ Serving
    /\ ~Dangling(c)
    /\ tree' = o.t
    /\ session' = [session EXCEPT ![c] = IF o.res.killed THEN NULL ELSE o.ctx]
    /\ hub' = IF o.undefined THEN "undefined" ELSE hub
    /\ opCount' = opCount + 1
    /\ ret' = [call |-> call, res |-> o.res]
    /\ UNCHANGED <<reads, dispatch>>

(* A call that involves no session context (Query API, handler removal). *)
ServePlain(call, o) ==
    /\ Serving
    /\ tree' = o.t
    /\ hub' = hub
    /\ opCount' = opCount + 1
    /\ ret' = [call |-> call, res |-> o.res]
    /\ UNCHANGED <<session, reads, dispatch>>

Init ==
    /\ tree = [q \in AllPaths |-> IF q = Root THEN NamespaceEntry ELSE NoEntry]
    /\ session = [c \in Apps |-> NULL]
    /\ nextRef = 1
    /\ hub = "running"
    /\ opCount = 0
    /\ ret = [call |-> NoCall, res |-> Res("VOID", FALSE, 0)]
    /\ reads = <<>>
    /\ dispatch = NoDispatch

(* Each action draws the call's arguments from the sets of an environment E. *)

CreateInput(c, E) ==
    \E path \in E.paths, dataType \in E.types, units \in E.units, idOk \in IdChoices(c) :
        /\ ServeIo(c, Call("io_CreateInput", c, FALSE, path, dataType, units, NoSample, 0, 0, idOk),
                   io_CreateInput(c, path, dataType, units, idOk))
        /\ UNCHANGED nextRef

CreateOutput(c, E) ==
    \E path \in E.paths, dataType \in E.types, units \in E.units, idOk \in IdChoices(c) :
        /\ ServeIo(c, Call("io_CreateOutput", c, FALSE, path, dataType, units, NoSample, 0, 0, idOk),
                   io_CreateOutput(c, path, dataType, units, idOk))
        /\ UNCHANGED nextRef

DeleteResource(c, E) ==
    \E path \in E.paths, idOk \in IdChoices(c) :
        /\ ServeIo(c, Call("io_DeleteResource", c, FALSE, path, "NONE", <<>>, NoSample, 0, 0, idOk),
                   io_DeleteResource(c, path, idOk))
        /\ UNCHANGED nextRef

PushTrigger(c, E) ==
    \E path \in E.paths, ts \in E.stamps, idOk \in IdChoices(c), now \in E.now :
        /\ ServeIo(c, Call("io_Push", c, FALSE, path, "TRIGGER", <<>>,
                           dataSample_CreateTrigger(ts), 0, 0, idOk),
                   io_PushTrigger(c, path, ts, idOk, now))
        /\ UNCHANGED nextRef

PushBoolean(c, E) ==
    \E path \in E.paths, ts \in E.stamps, v \in BoolValues,
       idOk \in IdChoices(c), now \in E.now :
        /\ ServeIo(c, Call("io_Push", c, FALSE, path, "BOOLEAN", <<>>,
                           dataSample_CreateBoolean(ts, v), 0, 0, idOk),
                   io_PushBoolean(c, path, ts, v, idOk, now))
        /\ UNCHANGED nextRef

PushNumeric(c, E) ==
    \E path \in E.paths, ts \in E.stamps, v \in NumValues,
       idOk \in IdChoices(c), now \in E.now :
        /\ ServeIo(c, Call("io_Push", c, FALSE, path, "NUMERIC", <<>>,
                           dataSample_CreateNumeric(ts, v), 0, 0, idOk),
                   io_PushNumeric(c, path, ts, v, idOk, now))
        /\ UNCHANGED nextRef

PushString(c, E) ==
    \E path \in E.paths, ts \in E.stamps, v \in StrValues,
       idOk \in IdChoices(c), now \in E.now :
        /\ ServeIo(c, Call("io_Push", c, FALSE, path, "STRING", <<>>,
                           dataSample_CreateString(ts, v), 0, 0, idOk),
                   io_PushString(c, path, ts, v, idOk, now))
        /\ UNCHANGED nextRef

PushJson(c, E) ==
    \E path \in E.paths, ts \in E.stamps, v \in StrValues,
       idOk \in IdChoices(c), now \in E.now :
        /\ ServeIo(c, Call("io_Push", c, FALSE, path, "JSON", <<>>,
                           dataSample_CreateJson(ts, v), 0, 0, idOk),
                   io_PushJson(c, path, ts, v, idOk, now))
        /\ UNCHANGED nextRef

AddHandler(c, E) ==
    \E path \in E.paths, dataType \in E.handlerTypes, idOk \in IdChoices(c) :
        LET o == AddPushHandler(c, path, dataType, idOk)
        IN  /\ nextRef <= E.maxHandlers
            /\ ServeIo(c, Call("io_AddPushHandler", c, FALSE, path, dataType, <<>>,
                               NoSample, 0, 0, idOk), o)
            /\ nextRef' = IF o.res.href # 0 THEN nextRef + 1 ELSE nextRef

RemoveHandler(E) ==
    \E handlerRef \in 1..E.maxHandlers :
        /\ ServePlain(Call("io_RemovePushHandler", "none", FALSE, <<>>, "NONE", <<>>,
                           NoSample, handlerRef, 0, TRUE),
                      RemovePushHandler(handlerRef))
        /\ UNCHANGED nextRef

MarkOptional(c, E) ==
    \E path \in E.paths, idOk \in IdChoices(c) :
        /\ ServeIo(c, Call("io_MarkOptional", c, FALSE, path, "NONE", <<>>, NoSample, 0, 0, idOk),
                   io_MarkOptional(c, path, idOk))
        /\ UNCHANGED nextRef

SetBooleanDefault(c, E) ==
    \E path \in E.paths, v \in BoolValues, idOk \in IdChoices(c) :
        /\ ServeIo(c, Call("io_SetDefault", c, FALSE, path, "BOOLEAN", <<>>,
                           dataSample_CreateBoolean(0, v), 0, 0, idOk),
                   io_SetBooleanDefault(c, path, v, idOk))
        /\ UNCHANGED nextRef

SetNumericDefault(c, E) ==
    \E path \in E.paths, v \in NumValues, idOk \in IdChoices(c) :
        /\ ServeIo(c, Call("io_SetDefault", c, FALSE, path, "NUMERIC", <<>>,
                           dataSample_CreateNumeric(0, v), 0, 0, idOk),
                   io_SetNumericDefault(c, path, v, idOk))
        /\ UNCHANGED nextRef

SetStringDefault(c, E) ==
    \E path \in E.paths, v \in StrValues, idOk \in IdChoices(c) :
        /\ ServeIo(c, Call("io_SetDefault", c, FALSE, path, "STRING", <<>>,
                           dataSample_CreateString(0, v), 0, 0, idOk),
                   io_SetStringDefault(c, path, v, idOk))
        /\ UNCHANGED nextRef

SetJsonDefault(c, E) ==
    \E path \in E.paths, v \in StrValues, idOk \in IdChoices(c) :
        /\ ServeIo(c, Call("io_SetDefault", c, FALSE, path, "JSON", <<>>,
                           dataSample_CreateJson(0, v), 0, 0, idOk),
                   io_SetJsonDefault(c, path, v, idOk))
        /\ UNCHANGED nextRef

GetTimestamp(c, E) ==
    \E path \in E.paths, idOk \in IdChoices(c), tsIn \in E.garbage :
        /\ ServeIo(c, Call("io_GetTimestamp", c, FALSE, path, "NONE", <<>>, NoSample, 0, tsIn, idOk),
                   io_GetTimestamp(c, path, idOk, tsIn))
        /\ UNCHANGED nextRef

GetBoolean(c, E) ==
    \E path \in E.paths, idOk \in IdChoices(c), tsIn \in E.garbage :
        /\ ServeIo(c, Call("io_Get", c, FALSE, path, "BOOLEAN", <<>>, NoSample, 0, tsIn, idOk),
                   io_GetBoolean(c, path, idOk, tsIn))
        /\ UNCHANGED nextRef

GetNumeric(c, E) ==
    \E path \in E.paths, idOk \in IdChoices(c), tsIn \in E.garbage :
        /\ ServeIo(c, Call("io_Get", c, FALSE, path, "NUMERIC", <<>>, NoSample, 0, tsIn, idOk),
                   io_GetNumeric(c, path, idOk, tsIn))
        /\ UNCHANGED nextRef

GetString(c, E) ==
    \E path \in E.paths, idOk \in IdChoices(c), tsIn \in E.garbage, valueSize \in E.sizes :
        /\ ServeIo(c, Call("io_Get", c, FALSE, path, "STRING", <<>>, NoSample, valueSize, tsIn, idOk),
                   io_GetString(c, path, idOk, tsIn, valueSize))
        /\ UNCHANGED nextRef

GetJson(c, E) ==
    \E path \in E.paths, idOk \in IdChoices(c), tsIn \in E.garbage, valueSize \in E.sizes :
        /\ ServeIo(c, Call("io_GetJson", c, FALSE, path, "JSON", <<>>, NoSample,
                           valueSize, tsIn, idOk),
                   io_GetJson(c, path, idOk, tsIn, valueSize))
        /\ UNCHANGED nextRef

QueryGetDataType(E) ==
    \E q \in E.queryPaths :
        /\ ServePlain(Call("query_GetDataType", "none", q.abs, q.path, "NONE", <<>>,
                           NoSample, 0, 0, TRUE),
                      query_GetDataType(q.abs, q.path))
        /\ UNCHANGED nextRef

QueryGetUnits(E) ==
    \E q \in E.queryPaths, unitsSize \in E.sizes :
        /\ ServePlain(Call("query_GetUnits", "none", q.abs, q.path, "NONE", <<>>,
                           NoSample, unitsSize, 0, TRUE),
                      query_GetUnits(q.abs, q.path, unitsSize))
        /\ UNCHANGED nextRef

QueryGetTimestamp(E) ==
    \E q \in E.queryPaths, tsIn \in E.garbage :
        /\ ServePlain(Call("query_GetTimestamp", "none", q.abs, q.path, "NONE", <<>>,
                           NoSample, 0, tsIn, TRUE),
                      query_GetTimestamp(q.abs, q.path, tsIn))
        /\ UNCHANGED nextRef

QueryGetBoolean(E) ==
    \E q \in E.queryPaths, tsIn \in E.garbage :
        /\ ServePlain(Call("query_Get", "none", q.abs, q.path, "BOOLEAN", <<>>,
                           NoSample, 0, tsIn, TRUE),
                      query_GetBoolean(q.abs, q.path, tsIn))
        /\ UNCHANGED nextRef

QueryGetNumeric(E) ==
    \E q \in E.queryPaths, tsIn \in E.garbage :
        /\ ServePlain(Call("query_Get", "none", q.abs, q.path, "NUMERIC", <<>>,
                           NoSample, 0, tsIn, TRUE),
                      query_GetNumeric(q.abs, q.path, tsIn))
        /\ UNCHANGED nextRef

QueryGetString(E) ==
    \E q \in E.queryPaths, tsIn \in E.garbage, valueSize \in E.sizes :
        /\ ServePlain(Call("query_Get", "none", q.abs, q.path, "STRING", <<>>,
                           NoSample, valueSize, tsIn, TRUE),
                      query_GetString(q.abs, q.path, tsIn, valueSize))
        /\ UNCHANGED nextRef

QueryGetJson(E) ==
    \E q \in E.queryPaths, tsIn \in E.garbage, valueSize \in E.sizes :
        /\ ServePlain(Call("query_GetJson", "none", q.abs, q.path, "JSON", <<>>,
                           NoSample, valueSize, tsIn, TRUE),
                      query_GetJson(q.abs, q.path, tsIn, valueSize))
        /\ UNCHANGED nextRef

(* The administrator creates an Observation and sets the size cap of its    *)
(* buffer; an Observation that exists is left as it is.                     *)
CreateObsAt(path, count) ==
    LET obsEntry == <<"obs">> \o path
        t1 == resTree_GetObservation(tree, path)
    IN  /\ ServePlain(Call("admin_CreateObs", "none", FALSE, path, "NONE", <<>>,
                           NoSample, count, 0, TRUE),
                      Outcome(IF tree[obsEntry].type = "OBSERVATION" THEN tree
                              ELSE resTree_SetBufferMaxCount(t1, obsEntry, count),
                              NULL, Res("VOID", FALSE, 0)))
        /\ UNCHANGED nextRef

CreateObs(E) ==
    \E path \in ObsRelPaths, count \in E.caps : CreateObsAt(path, count)

(* The administrator creates an Observation below an Observation path. *)
CreateObsBelow(E) ==
    \E path \in ObsBelowPaths, count \in E.caps : CreateObsAt(path, count)

(* The administrator pushes a numeric sample to an Observation. *)
AdminPushNumeric(E) ==
    \E path \in ObsRelPaths, ts \in E.stamps, v \in NumValues, now \in E.now :
        LET obsEntry == <<"obs">> \o path
            p == resTree_Push(tree, obsEntry, "NUMERIC", dataSample_CreateNumeric(ts, v), now)
        IN  /\ tree[obsEntry].type = "OBSERVATION"
            /\ ServePlain(Call("admin_Push", "none", FALSE, path, "NUMERIC", <<>>,
                               dataSample_CreateNumeric(ts, v), 0, 0, TRUE),
                          Outcome(p.t, NULL,
                                  [Res("VOID", p.killed, 0) EXCEPT !.called = p.called]))
            /\ UNCHANGED nextRef

ReadBufferJson(E) ==
    \E q \in E.obsPaths, startAfter \in E.startAfters, now \in E.now :
        /\ ServePlain(Call("query_ReadBufferJson", "none", q.abs, q.path, "NONE", <<>>,
                           startAfter, 0, now, TRUE),
                      query_ReadBufferJson(q, startAfter, now))
        /\ UNCHANGED nextRef

GetMin(E) ==
    \E q \in E.obsPaths, startTime \in E.startAfters, now \in E.now :
        /\ ServePlain(Call("query_GetMin", "none", q.abs, q.path, "NONE", <<>>,
                           startTime, 0, now, TRUE),
                      query_GetMin(q, startTime))
        /\ UNCHANGED nextRef

GetMax(E) ==
    \E q \in E.obsPaths, startTime \in E.startAfters, now \in E.now :
        /\ ServePlain(Call("query_GetMax", "none", q.abs, q.path, "NONE", <<>>,
                           startTime, 0, now, TRUE),
                      query_GetMax(q, startTime))
        /\ UNCHANGED nextRef

GetMean(E) ==
    \E q \in E.obsPaths, startTime \in E.startAfters, now \in E.now :
        /\ ServePlain(Call("query_GetMean", "none", q.abs, q.path, "NONE", <<>>,
                           startTime, 0, now, TRUE),
                      query_GetMean(q, startTime))
        /\ UNCHANGED nextRef

GetStdDev(E) ==
    \E q \in E.obsPaths, startTime \in E.startAfters, now \in E.now :
        /\ ServePlain(Call("query_GetStdDev", "none", q.abs, q.path, "NONE", <<>>,
                           startTime, 0, now, TRUE),
                      query_GetStdDev(q, startTime))
        /\ UNCHANGED nextRef

(* The client's session ends: its context pointer goes with it. *)
SessionClose(c) ==
    /\ Serving
    /\ session[c] # NULL
    /\ session' = [session EXCEPT ![c] = NULL]
    /\ opCount' = opCount + 1
    /\ ret' = [call |-> Call("sessionClose", c, FALSE, <<>>, "NONE", <<>>, NoSample, 0, 0, TRUE),
               res |-> Res("VOID", FALSE, 0)]
    /\ UNCHANGED <<tree, nextRef, hub, reads, dispatch>>

(* A client I/O call in a session whose context pointer dangles reads a     *)
(* removed entry: undefined behaviour.                                      *)
UseDangling(c) ==
    /\ Serving
    /\ Dangling(c)
    /\ hub' = "undefined"
    /\ opCount' = opCount + 1
    /\ ret' = [call |-> Call("io_any", c, FALSE, <<>>, "NONE", <<>>, NoSample, 0, 0, TRUE),
               res |-> Res("UNDEFINED", FALSE, 0)]
    /\ UNCHANGED <<tree, session, nextRef, reads, dispatch>>

---------------------------------------------------------------------------
(* Specification Spec: the structure of the tree.  One client creates and   *)
(* deletes Boolean and Numeric Inputs and Outputs at x and x/y, pushes      *)
(* triggers and Boolean samples, sets Boolean defaults, registers handlers  *)
(* and reads Boolean values.                                                *)

TreeEnv ==
    [paths |-> {X, XY}, types |-> {"BOOLEAN", "NUMERIC"}, units |-> UnitsSet,
     handlerTypes |-> {"BOOLEAN"}, maxHandlers |-> MaxHandlers,
     stamps |-> {5}, now |-> {100}, garbage |-> {9}, sizes |-> {2},
     queryPaths |-> {AbsPath(AppNs("a") \o X)}, caps |-> {0}]

Next ==
    \/ \E c \in Clients :
        \/ CreateInput(c, TreeEnv)
        \/ CreateOutput(c, TreeEnv)
        \/ DeleteResource(c, TreeEnv)
        \/ PushTrigger(c, TreeEnv)
        \/ PushBoolean(c, TreeEnv)
        \/ SetBooleanDefault(c, TreeEnv)
        \/ AddHandler(c, TreeEnv)
        \/ MarkOptional(c, TreeEnv)
        \/ GetBoolean(c, TreeEnv)
        \/ SessionClose(c)
        \/ UseDangling(c)
    \/ RemoveHandler(TreeEnv)
    \/ CreateObs(TreeEnv)

Spec == Init /\ [][Next]_vars

---------------------------------------------------------------------------
(* Specification SpecIo: the values of one resource through the I/O API.    *)
(* One client creates a Boolean, Numeric or String Input or Output at x,    *)
(* pushes samples and sets defaults of the three kinds, registers handlers  *)
(* and reads through io_GetTimestamp and io_Get<Type>.                      *)

IoEnv ==
    [paths |-> {X}, types |-> {"BOOLEAN", "NUMERIC", "STRING"}, units |-> {<<>>},
     handlerTypes |-> {"BOOLEAN", "NUMERIC"}, maxHandlers |-> MaxHandlers,
     stamps |-> {0, 5}, now |-> {100}, garbage |-> {5, 9}, sizes |-> {2, 3},
     queryPaths |-> {AbsPath(AppNs("a") \o X)}]

NextIo ==
    \/ \E c \in Clients :
        \/ CreateInput(c, IoEnv)
        \/ CreateOutput(c, IoEnv)
        \/ DeleteResource(c, IoEnv)
        \/ PushBoolean(c, IoEnv)
        \/ PushNumeric(c, IoEnv)
        \/ PushString(c, IoEnv)
        \/ SetBooleanDefault(c, IoEnv)
        \/ SetNumericDefault(c, IoEnv)
        \/ SetStringDefault(c, IoEnv)
        \/ AddHandler(c, IoEnv)
        \/ GetTimestamp(c, IoEnv)
        \/ GetBoolean(c, IoEnv)
        \/ GetNumeric(c, IoEnv)
        \/ GetString(c, IoEnv)
        \/ SessionClose(c)
        \/ UseDangling(c)
    \/ RemoveHandler(IoEnv)

SpecIo == Init /\ [][NextIo]_vars

---------------------------------------------------------------------------
(* Specification SpecQuery: the values of one resource through the Query    *)
(* API.  One client creates a Boolean, Numeric or String Input or Output at *)
(* x, pushes samples and sets defaults; anyone queries /app/a/x, the        *)
(* namespace /app/a and the path app/a/x, which is not absolute.            *)

QueryEnv ==
    [paths |-> {X}, types |-> {"BOOLEAN", "NUMERIC", "STRING"}, units |-> {<<>>, <<"m">>},
     handlerTypes |-> {"BOOLEAN"}, maxHandlers |-> MaxHandlers,
     stamps |-> {0, 5}, now |-> {100}, garbage |-> {9}, sizes |-> {2, 3},
     queryPaths |-> {AbsPath(AppNs("a") \o X), AbsPath(AppNs("a")),
                     NonAbsPath(AppNs("a") \o X)}]

NextQuery ==
    \/ \E c \in Clients :
        \/ CreateInput(c, QueryEnv)
        \/ CreateOutput(c, QueryEnv)
        \/ DeleteResource(c, QueryEnv)
        \/ PushBoolean(c, QueryEnv)
        \/ PushNumeric(c, QueryEnv)
        \/ PushString(c, QueryEnv)
        \/ SetBooleanDefault(c, QueryEnv)
        \/ SetNumericDefault(c, QueryEnv)
        \/ SetStringDefault(c, QueryEnv)
        \/ SessionClose(c)
        \/ UseDangling(c)
    \/ QueryGetDataType(QueryEnv)
    \/ QueryGetUnits(QueryEnv)
    \/ QueryGetTimestamp(QueryEnv)
    \/ QueryGetBoolean(QueryEnv)
    \/ QueryGetNumeric(QueryEnv)
    \/ QueryGetString(QueryEnv)
    \/ QueryGetJson(QueryEnv)

SpecQuery == Init /\ [][NextQuery]_vars

---------------------------------------------------------------------------
(* Specification SpecRead: reading one resource through both APIs.  One     *)
(* client creates a Boolean or Numeric Input or Output at x, pushes         *)
(* samples, sets defaults and reads with getTimestamp, getBoolean,          *)
(* getNumeric and getJson; anyone queries /app/a/x.                         *)

ReadEnv ==
    [paths |-> {X}, types |-> {"BOOLEAN", "NUMERIC"}, units |-> {<<>>},
     handlerTypes |-> {"BOOLEAN"}, maxHandlers |-> MaxHandlers,
     stamps |-> {5}, now |-> {100}, garbage |-> {9}, sizes |-> {3, 6},
     queryPaths |-> {AbsPath(AppNs("a") \o X)}]

NextRead ==
    \/ \E c \in Clients :
        \/ CreateInput(c, ReadEnv)
        \/ CreateOutput(c, ReadEnv)
        \/ DeleteResource(c, ReadEnv)
        \/ PushBoolean(c, ReadEnv)
        \/ PushNumeric(c, ReadEnv)
        \/ SetBooleanDefault(c, ReadEnv)
        \/ SetNumericDefault(c, ReadEnv)
        \/ GetTimestamp(c, ReadEnv)
        \/ GetBoolean(c, ReadEnv)
        \/ GetNumeric(c, ReadEnv)
        \/ GetJson(c, ReadEnv)
        \/ SessionClose(c)
        \/ UseDangling(c)
    \/ QueryGetTimestamp(ReadEnv)
    \/ QueryGetBoolean(ReadEnv)
    \/ QueryGetNumeric(ReadEnv)
    \/ QueryGetJson(ReadEnv)

SpecRead == Init /\ [][NextRead]_vars

---------------------------------------------------------------------------
(* Specification SpecHandlers: the fan-out of pushes.  One client creates a *)
(* Boolean or Numeric Input or Output at x, registers and removes Boolean   *)
(* and Numeric push handlers on it, and pushes Boolean and Numeric samples. *)

HandlerEnv ==
    [paths |-> {X}, types |-> {"BOOLEAN", "NUMERIC"}, units |-> {<<>>},
     handlerTypes |-> {"BOOLEAN", "NUMERIC"}, maxHandlers |-> MaxFanOut,
     stamps |-> {5}, now |-> {100}, garbage |-> {9}, sizes |-> {3},
     queryPaths |-> {AbsPath(AppNs("a") \o X)}]

NextHandlers ==
    \/ \E c \in Clients :
        \/ CreateInput(c, HandlerEnv)
        \/ CreateOutput(c, HandlerEnv)
        \/ DeleteResource(c, HandlerEnv)
        \/ PushBoolean(c, HandlerEnv)
        \/ PushNumeric(c, HandlerEnv)
        \/ AddHandler(c, HandlerEnv)
        \/ SessionClose(c)
        \/ UseDangling(c)
    \/ RemoveHandler(HandlerEnv)

SpecHandlers == Init /\ [][NextHandlers]_vars

---------------------------------------------------------------------------
(* Specification SpecObs: the buffer of an Observation.  The administrator  *)
(* creates /obs/o with a size cap and pushes numeric samples to it;         *)
(* anyone reads the buffer and asks for its aggregates, by the absolute     *)
(* path, by the path relative to /obs/ and by the path of /obs itself, with *)
(* a negative, a zero, a relative, an absolute and a NaN start time.        *)

ObsEnv ==
    [now |-> {SECONDS_IN_30_YEARS + 100},
     stamps |-> {SECONDS_IN_30_YEARS + 95, SECONDS_IN_30_YEARS + 98},
     caps |-> {1, MaxBuffer},
     obsPaths |-> {AbsPath(<<"obs", "o">>), NonAbsPath(<<"o">>), AbsPath(<<"obs">>)},
     startAfters |-> {Seconds(0 - 1), Seconds(0), Seconds(3),
                      Seconds(SECONDS_IN_30_YEARS + 90), NaN}]

NextObs ==
    \/ CreateObs(ObsEnv)
    \/ AdminPushNumeric(ObsEnv)
    \/ ReadBufferJson(ObsEnv)
    \/ GetMin(ObsEnv)
    \/ GetMax(ObsEnv)
    \/ GetMean(ObsEnv)
    \/ GetStdDev(ObsEnv)

SpecObs == Init /\ [][NextObs]_vars

---------------------------------------------------------------------------
(* Vocabulary of the properties *)

(* The step serves a call of operation op; ret' holds the call and what it  *)
(* handed back.                                                             *)
Served(op) == opCount' = opCount + 1 /\ ret'.call.op = op

(* The entry that the path of a client I/O call names. *)
Target(call) == AppNs(call.client) \o call.path

(* The hub knows the caller's namespace: the session has its context        *)
(* pointer, or the client can be identified.                                *)
Resolves(call) == session[call.client] # NULL \/ call.idOk

CreateOps == {"io_CreateInput", "io_CreateOutput"}

RoleOf(op) == IF op = "io_CreateInput" THEN "INPUT" ELSE "OUTPUT"

(* The entry e has the role, the data type and the units that the create    *)
(* call asks for.                                                           *)
Matches(e, call) ==
    e.type = RoleOf(call.op) /\ e.dataType = call.kind /\ e.units = call.units

(* The entry e is an Input, Output or Observation that the create call      *)
(* does not match.                                                          *)
Conflicts(e, call) ==
    e.type \in {"INPUT", "OUTPUT", "OBSERVATION"} /\ ~Matches(e, call)

---------------------------------------------------------------------------
(* C1: createInput / createOutput on a path of the client's namespace that  *)
(* already holds a resource of another role, or of the same role with       *)
(* another data type or other units, returns Duplicate, and the tree after  *)
(* the call is the tree before it.                                          *)
C1_DuplicateLeavesTree ==
    [][\A op \in CreateOps :
          (Served(op) /\ Resolves(ret'.call) /\ Conflicts(tree[Target(ret'.call)], ret'.call))
          => (ret'.res.result = "LE_DUPLICATE" /\ tree' = tree)]_vars

(* A create call has been refused as Duplicate on a resource of the other   *)
(* role that holds a current value.                                         *)
C1_Witness ==
    /\ ret.call.op \in CreateOps
    /\ ret.res.result = "LE_DUPLICATE"
    /\ tree[Target(ret.call)].type \in {"INPUT", "OUTPUT"} \ {RoleOf(ret.call.op)}
    /\ tree[Target(ret.call)].current # NoSample

(* C2: createInput / createOutput on a path that already holds the same     *)
(* role with the same data type and units returns Ok and leaves the whole   *)
(* tree unchanged; and every create call that returns Ok leaves at that     *)
(* path the role, data type and units asked for, so that the same call      *)
(* made again is such a call.                                               *)
C2_CreateIdempotent ==
    [][\A op \in CreateOps :
          (Served(op) /\ Resolves(ret'.call))
          => /\ Matches(tree[Target(ret'.call)], ret'.call)
                => (ret'.res.result = "LE_OK" /\ tree' = tree)
             /\ ret'.res.result = "LE_OK"
                => Matches(tree'[Target(ret'.call)], ret'.call)]_vars

(* A create call has returned Ok on a resource that already had a current   *)
(* value and a default.                                                     *)
C2_Witness ==
    /\ ret.call.op \in CreateOps
    /\ ret.res.result = "LE_OK"
    /\ tree[Target(ret.call)].current # NoSample
    /\ tree[Target(ret.call)].default # NoSample

---------------------------------------------------------------------------
(* The call's path does not lead to an Input or Output of the caller. *)
NoIo(call) == tree[Target(call)].type \notin {"INPUT", "OUTPUT"}

(* The namespaces that the first call of a session creates. *)
SessionNamespaces(c) == {<<"app">>, AppNs(c)}

(* The tree after the step is the tree before it, except that entries of N  *)
(* that did not exist may now be empty Namespaces.                          *)
SameTreeBut(N) ==
    \A q \in AllPaths :
        \/ tree'[q] = tree[q]
        \/ q \in N /\ tree[q].type = "NONE" /\ tree'[q] = NamespaceEntry

(* C8 as stated: a push to a path that is no Input or Output of the client  *)
(* terminates the session and leaves the tree identical.                    *)
C8_PushMissingTreeIdentical ==
    [][(Served("io_Push") /\ NoIo(ret'.call))
       => (ret'.res.killed /\ tree' = tree)]_vars

(* C8, amended: such a push terminates the session, invokes no handler and  *)
(* creates no resource and no value; the tree is identical but for the      *)
(* namespaces /app and /app/<client>, which the first call of a session     *)
(* that the hub can identify creates when they are missing; in a session    *)
(* that already has its namespace the tree is identical.                    *)
C8_PushMissingKills ==
    [][(Served("io_Push") /\ NoIo(ret'.call))
       => /\ ret'.res.killed
          /\ session'[ret'.call.client] = NULL
          /\ ret'.res.called = <<>>
          /\ SameTreeBut(SessionNamespaces(ret'.call.client))
          /\ (session[ret'.call.client] # NULL \/ ~ret'.call.idOk) => tree' = tree]_vars

(* A push to a missing path has been the first call of a session and has    *)
(* left the client's namespace behind.                                      *)
C8_Witness ==
    /\ ret.call.op = "io_Push"
    /\ ret.res.killed
    /\ opCount = 1
    /\ tree[Target(ret.call)].type = "NONE"
    /\ tree[AppNs(ret.call.client)].type = "NAMESPACE"

---------------------------------------------------------------------------
(* The call's path leads to an Input or Output of the caller. *)
IsIo(call) == tree[Target(call)].type \in {"INPUT", "OUTPUT"}

(* The value that a typed getter of the given kind has delivered is the     *)
(* value of the sample.                                                     *)
Delivered(kind, res, sample) ==
    /\ res.valWritten
    /\ kind = "BOOLEAN" => res.val.b = sample.b
    /\ kind = "NUMERIC" => res.val.n = sample.n
    /\ kind = "STRING" => res.val.s = sample.s

(* The step serves get<K> right after the same client's push<K> of a sample *)
(* with a timestamp other than 0 to the same Input or Output of type K, in  *)
(* the same session and with room for the value in the caller's buffer.     *)
GetAfterPush(getOp) ==
    /\ Served(getOp)
    /\ ret.call.op = "io_Push"
    /\ session[ret.call.client] # NULL
    /\ ret'.call.kind = "STRING" => Len(ret.call.arg.s) < ret'.call.size
    /\ ret.call.arg.ts # 0
    /\ ret.call.kind = ret'.call.kind
    /\ ret.call.client = ret'.call.client
    /\ ret.call.path = ret'.call.path
    /\ IsIo(ret.call)
    /\ tree[Target(ret.call)].dataType = ret.call.kind

(* C3 as stated: after push<K>(path, ts, v) with ts # 0 on an Input or      *)
(* Output of type K, get<K>(path) returns Ok, delivers v, and delivers ts   *)
(* through its timestamp output.                                            *)
C3_IoRoundTrip ==
    [][GetAfterPush("io_Get")
       => /\ ret'.res.result = "LE_OK"
          /\ Delivered(ret'.call.kind, ret'.res, ret.call.arg)
          /\ ret'.res.tsOut = ret.call.arg.ts]_vars

(* C5: every Input or Output that has a current value holds a sample of     *)
(* the entry's data type; and a push<K> to an Input or Output of another    *)
(* data type kills the caller, invokes no handler and leaves the tree       *)
(* (current value and data type included) as it was.                        *)
KindMatches ==
    \A q \in AllPaths :
        (tree[q].type \in {"INPUT", "OUTPUT"} /\ tree[q].current # NoSample)
        => tree[q].current.kind = tree[q].dataType

C5_CurrentKindIsDataType ==
    [][/\ KindMatches'
       /\ (Served("io_Push") /\ IsIo(ret'.call)
           /\ tree[Target(ret'.call)].dataType # ret'.call.kind)
          => (ret'.res.killed /\ ret'.res.called = <<>> /\ tree' = tree)]_vars

(* A push of another kind has been refused on a resource that holds a       *)
(* current value and has a handler.                                         *)
C5_Witness ==
    /\ ret.call.op = "io_Push"
    /\ ret.res.killed
    /\ IsIo(ret.call)
    /\ tree[Target(ret.call)].dataType # ret.call.kind
    /\ tree[Target(ret.call)].current # NoSample
    /\ tree[Target(ret.call)].handlers # <<>>

(* C6: a set<K>Default call on a resource that has a default changes        *)
(* nothing in the tree, and does not kill a caller that the hub knows and   *)
(* that passes the resource's type; and while the resource has no current   *)
(* value, get<K> delivers the value of that default.                        *)
C6_DefaultWriteOnce ==
    [][/\ (Served("io_SetDefault") /\ IsIo(ret'.call)
           /\ tree[Target(ret'.call)].default # NoSample)
          => /\ tree' = tree
             /\ (tree[Target(ret'.call)].dataType = ret'.call.kind /\ Resolves(ret'.call))
                => ~ret'.res.killed
       /\ (Served("io_Get") /\ IsIo(ret'.call)
           /\ tree[Target(ret'.call)].dataType = ret'.call.kind
           /\ tree[Target(ret'.call)].default # NoSample
           /\ tree[Target(ret'.call)].current = NoSample
           /\ ret'.res.result = "LE_OK")
          => Delivered(ret'.call.kind, ret'.res, tree[Target(ret'.call)].default)]_vars

(* A second set<K>Default with another value has been ignored. *)
C6_Witness ==
    /\ ret.call.op = "io_SetDefault"
    /\ ~ret.res.killed
    /\ IsIo(ret.call)
    /\ tree[Target(ret.call)].default # NoSample
    /\ tree[Target(ret.call)].default.kind = ret.call.arg.kind
    /\ tree[Target(ret.call)].default # ret.call.arg

(* C7 as stated: get<K> on an Input or Output of type K that has a default  *)
(* and no current value delivers the default's value with timestamp 0; on   *)
(* one that has a current value it delivers that sample's value and         *)
(* timestamp.                                                               *)
C7_DefaultPrecedence ==
    [][(Served("io_Get") /\ IsIo(ret'.call)
        /\ tree[Target(ret'.call)].dataType = ret'.call.kind
        /\ ret'.res.result = "LE_OK")
       => LET e == tree[Target(ret'.call)]
              read == IF e.current # NoSample THEN e.current ELSE e.default
          IN  /\ Delivered(ret'.call.kind, ret'.res, read)
              /\ ret'.res.tsOut = read.ts]_vars

(* C10: get<K> on an Input or Output of another data type kills the caller, *)
(* writes neither the value nor the timestamp output, and leaves the tree   *)
(* as it was.                                                               *)
C10_WrongKindGetKills ==
    [][(Served("io_Get") /\ IsIo(ret'.call)
        /\ tree[Target(ret'.call)].dataType # ret'.call.kind)
       => /\ ret'.res.killed
          /\ session'[ret'.call.client] = NULL
          /\ ~ret'.res.valWritten
          /\ ~ret'.res.tsWritten
          /\ ret'.res.tsOut = ret'.call.tsIn
          /\ tree' = tree]_vars

(* A get of another kind has been refused on a resource that holds a value. *)
C10_Witness ==
    /\ ret.call.op = "io_Get"
    /\ ret.res.killed
    /\ IsIo(ret.call)
    /\ tree[Target(ret.call)].dataType # ret.call.kind
    /\ tree[Target(ret.call)].current # NoSample

---------------------------------------------------------------------------
(* The query call's path is absolute and leads to an Input or Output. *)
QueryIsIo(call) == call.abs /\ tree[call.path].type \in {"INPUT", "OUTPUT"}

(* The step serves a query right after a client's push<K> of a sample with  *)
(* a timestamp other than 0 to an Input or Output of type K, with the       *)
(* absolute path of that resource.                                          *)
QueryAfterPush(queryOp) ==
    /\ Served(queryOp)
    /\ ret.call.op = "io_Push"
    /\ ~ret.res.killed
    /\ ret.call.arg.ts # 0
    /\ IsIo(ret.call)
    /\ tree[Target(ret.call)].dataType = ret.call.kind
    /\ ret'.call.abs
    /\ ret'.call.path = Target(ret.call)

(* C4: right after a client's push<K>(path, ts, v) with ts # 0 to an Input  *)
(* or Output of type K, the query getter for K on /app/<client>/<path>      *)
(* returns Ok with timestamp ts and value v (for a string, given a buffer   *)
(* that has room for v), and query getTimestamp returns Ok with ts.         *)
C4_QueryRoundTrip ==
    [][/\ (QueryAfterPush("query_Get") /\ ret'.call.kind = ret.call.kind
           /\ (ret'.call.kind = "STRING" => Len(ret.call.arg.s) < ret'.call.size))
          => /\ ret'.res.result = "LE_OK"
             /\ ret'.res.tsOut = ret.call.arg.ts
             /\ Delivered(ret'.call.kind, ret'.res, ret.call.arg)
       /\ QueryAfterPush("query_GetTimestamp")
          => /\ ret'.res.result = "LE_OK"
             /\ ret'.res.tsOut = ret.call.arg.ts]_vars

(* A typed query has returned Ok with the timestamp 5 of the current value. *)
C4_Witness ==
    /\ ret.call.op = "query_Get"
    /\ ret.res.result = "LE_OK"
    /\ QueryIsIo(ret.call)
    /\ tree[ret.call.path].current # NoSample
    /\ ret.res.tsOut = 5
    /\ ret.call.tsIn # 5

(* C9 as stated: a typed query getter on a resource of another data type    *)
(* returns FormatError, whether or not the resource has a value.            *)
C9_MismatchAlwaysFormatError ==
    [][(Served("query_Get") /\ QueryIsIo(ret'.call)
        /\ tree[ret'.call.path].dataType # ret'.call.kind)
       => ret'.res.result = "LE_FORMAT_ERROR"]_vars

(* C9, amended: a typed query getter on a resource of another data type     *)
(* returns FormatError when the resource has a current value or a default,  *)
(* and Unavailable when it has neither; it writes no output.                *)
C9_MismatchFormatError ==
    [][(Served("query_Get") /\ QueryIsIo(ret'.call)
        /\ tree[ret'.call.path].dataType # ret'.call.kind)
       => LET e == tree[ret'.call.path]
          IN  /\ (e.current # NoSample \/ e.default # NoSample)
                 => ret'.res.result = "LE_FORMAT_ERROR"
              /\ (e.current = NoSample /\ e.default = NoSample)
                 => ret'.res.result = "LE_UNAVAILABLE"
              /\ ~ret'.res.valWritten
              /\ ~ret'.res.tsWritten
              /\ tree' = tree]_vars

(* A typed query of another kind has returned FormatError on a resource     *)
(* that holds a current value.                                              *)
C9_Witness ==
    /\ ret.call.op = "query_Get"
    /\ ret.res.result = "LE_FORMAT_ERROR"
    /\ QueryIsIo(ret.call)
    /\ tree[ret.call.path].dataType # ret.call.kind
    /\ tree[ret.call.path].current # NoSample

---------------------------------------------------------------------------
(* The getters of the Query API. *)
QueryGetters ==
    {"query_GetDataType", "query_GetUnits", "query_GetTimestamp", "query_Get",
     "query_GetJson"}

(* The call has written none of the caller's output variables. *)
NothingWritten(r) ==
    /\ ~r.res.tsWritten
    /\ ~r.res.valWritten
    /\ r.res.dtOut = "NONE"
    /\ r.res.tsOut = r.call.tsIn
    /\ r.res.val = NoValue

(* C11: every getter of the Query API returns NotFound for an absolute path *)
(* that leads to no entry and Unsupported for one that leads to a           *)
(* Namespace, whatever values the tree holds, and in both cases writes no   *)
(* output and leaves the tree as it was.                                    *)
C11_NotFoundUnsupported ==
    [][\A op \in QueryGetters :
          (Served(op) /\ ret'.call.abs)
          => /\ tree[ret'.call.path].type = "NONE"
                => (ret'.res.result = "LE_NOT_FOUND" /\ NothingWritten(ret') /\ tree' = tree)
             /\ tree[ret'.call.path].type = "NAMESPACE"
                => (ret'.res.result = "LE_UNSUPPORTED" /\ NothingWritten(ret')
                    /\ tree' = tree)]_vars

(* getJson has returned Unsupported for the client's namespace, under which *)
(* a resource holds a value.                                                *)
C11_Witness ==
    /\ ret.call.op = "query_GetJson"
    /\ ret.res.result = "LE_UNSUPPORTED"
    /\ ret.call.abs
    /\ tree[ret.call.path].type = "NAMESPACE"
    /\ \E q \in AllPaths : tree[q].current # NoSample

---------------------------------------------------------------------------
(* The value reads of the client I/O API and of the Query API. *)
IoReads == {"io_GetTimestamp", "io_Get", "io_GetJson"}

QueryReads == {"query_GetTimestamp", "query_Get", "query_GetJson"}

(* The entry has a current value or a default. *)
HasValue(e) == e.current # NoSample \/ e.default # NoSample

(* C12: a value read that is answered on an existing resource returns       *)
(* Unavailable exactly when the resource has neither a current value nor a  *)
(* default; a push or a default-set that the hub accepts leaves the         *)
(* resource with a value, so no read returns Unavailable after it and none  *)
(* returns Ok before any.  (A get<K> of another kind than the resource's    *)
(* is not answered: the caller is terminated.)                              *)
C12_UnavailableIffNoValue ==
    [][/\ \A op \in IoReads :
            (Served(op) /\ Resolves(ret'.call) /\ IsIo(ret'.call) /\ ~ret'.res.killed)
            => /\ ret'.res.result = "LE_UNAVAILABLE" <=> ~HasValue(tree[Target(ret'.call)])
               /\ ret'.res.result = "LE_OK" => HasValue(tree[Target(ret'.call)])
       /\ \A op \in QueryReads :
            (Served(op) /\ ret'.call.abs /\ Exists(tree, ret'.call.path)
             /\ resTree_IsResource(tree, ret'.call.path))
            => /\ ret'.res.result = "LE_UNAVAILABLE" <=> ~HasValue(tree[ret'.call.path])
               /\ ret'.res.result = "LE_OK" => HasValue(tree[ret'.call.path])
       /\ (Served("io_Push") /\ ~ret'.res.killed)
          => tree'[Target(ret'.call)].current # NoSample
       /\ (Served("io_SetDefault") /\ ~ret'.res.killed)
          => tree'[Target(ret'.call)].default # NoSample]_vars

(* The client's getJson has returned Ok on a resource that has a default    *)
(* and no current value.                                                    *)
C12_Witness ==
    /\ ret.call.op = "io_GetJson"
    /\ ret.res.result = "LE_OK"
    /\ tree[Target(ret.call)].current = NoSample
    /\ tree[Target(ret.call)].default # NoSample

---------------------------------------------------------------------------
(* The references of the handlers of the given kind on entry q of tree t. *)
Registered(t, q, kind) ==
    {t[q].handlers[i].ref : i \in {j \in DOMAIN t[q].handlers : t[q].handlers[j].kind = kind}}

(* The references of all handlers in tree t. *)
AllHandlerRefs(t) ==
    UNION {{t[q].handlers[i].ref : i \in DOMAIN t[q].handlers} : q \in AllPaths}

(* The references that the push of this step has invoked. *)
InvokedRefs == {ret'.res.called[i].ref : i \in DOMAIN ret'.res.called}

(* The step serves a push that the hub accepts. *)
AcceptedPush == Served("io_Push") /\ ~ret'.res.killed

(* C13: an accepted push invokes exactly the handlers of its kind that are  *)
(* registered on the resource, each once.  A handler is registered from the *)
(* add that returned its reference until it is removed (or the resource is  *)
(* deleted): an add puts a new reference on the resource, a remove takes    *)
(* the reference off, and no other call changes a handler list.             *)
C13_FanOutExactlyOnce ==
    [][/\ AcceptedPush
          => /\ InvokedRefs = Registered(tree, Target(ret'.call), ret'.call.kind)
             /\ Len(ret'.res.called) = Cardinality(InvokedRefs)
       /\ (Served("io_AddPushHandler") /\ ret'.res.href # 0)
          => /\ ret'.res.href \notin AllHandlerRefs(tree)
             /\ ret'.res.href \in Registered(tree', Target(ret'.call), ret'.call.kind)
       /\ Served("io_RemovePushHandler")
          => ret'.call.size \notin AllHandlerRefs(tree')
       /\ ret'.call.op \notin {"io_AddPushHandler", "io_RemovePushHandler", "io_DeleteResource"}
          => \A q \in AllPaths : tree'[q].handlers = tree[q].handlers]_vars

(* A push has invoked two handlers. *)
C13_Witness ==
    /\ ret.call.op = "io_Push"
    /\ ~ret.res.killed
    /\ Len(ret.res.called) = 2
    /\ ret.res.called[1].ref # ret.res.called[2].ref

(* C14: the handlers that a push invokes are invoked in the order in which  *)
(* they were added (references are handed out in increasing order and a     *)
(* new handler goes behind those already on the list), one after another,   *)
(* and every invocation of a push carries the sample of that push, which is *)
(* the resource's current value when the push returns: the invocations of   *)
(* one push are over before the next push begins.                           *)
C14_InsertionOrder ==
    [][/\ AcceptedPush
          => /\ \A i, j \in DOMAIN ret'.res.called :
                    i < j => ret'.res.called[i].ref < ret'.res.called[j].ref
             /\ \A i \in DOMAIN ret'.res.called :
                    /\ ret'.res.called[i].sample = tree'[Target(ret'.call)].current
                    /\ ret'.res.called[i].sample
                         = Stamped(ret'.call.arg, ret'.res.called[i].sample.ts)
       /\ (Served("io_AddPushHandler") /\ ret'.res.href # 0)
          => LET hs == tree'[Target(ret'.call)].handlers
             IN  /\ hs[Len(hs)].ref = ret'.res.href
                 /\ \A r \in AllHandlerRefs(tree) : r < ret'.res.href]_vars

(* A push has invoked the handler added first and then the one added next. *)
C14_Witness ==
    /\ ret.call.op = "io_Push"
    /\ Len(ret.res.called) = 2
    /\ ret.res.called[1].ref = 1
    /\ ret.res.called[2].ref = 2
    /\ ret.res.called[2].sample = ret.res.called[1].sample

(* The kind that the handler with this reference expects. *)
ExpectedKind(t, q, ref) ==
    (CHOOSE h \in {t[q].handlers[i] : i \in DOMAIN t[q].handlers} : h.ref = ref).kind

(* C15: a push invokes only handlers that expect the kind of the push; a    *)
(* handler that expects another kind than the data type of its Input or     *)
(* Output can be registered and is left out of every fan-out there.         *)
C15_OnlyMatchingKind ==
    [][Served("io_Push")
       => /\ \A r \in InvokedRefs :
                /\ r \in AllHandlerRefs(tree)
                /\ ExpectedKind(tree, Target(ret'.call), r) = ret'.call.kind
          /\ \A r \in AllHandlerRefs(tree) \ Registered(tree, Target(ret'.call), ret'.call.kind) :
                r \notin InvokedRefs]_vars

(* An accepted push to a resource that has a handler of another kind, and   *)
(* one of its own kind, has invoked only the latter.                        *)
C15_Witness ==
    /\ ret.call.op = "io_Push"
    /\ ~ret.res.killed
    /\ Len(tree[Target(ret.call)].handlers) = 2
    /\ Len(ret.res.called) = 1
    /\ \E i \in 1..2 : tree[Target(ret.call)].handlers[i].kind # tree[Target(ret.call)].dataType

---------------------------------------------------------------------------
(* C16 as stated: add<K>PushHandler on a path that is no Input or Output of *)
(* the client terminates the session, returns the null reference and        *)
(* leaves the tree unchanged.                                               *)
C16_AddHandlerTreeUnchanged ==
    [][(Served("io_AddPushHandler") /\ NoIo(ret'.call))
       => (ret'.res.killed /\ ret'.res.href = 0 /\ tree' = tree)]_vars

(* C16, amended: such a call terminates the session, returns the null       *)
(* reference and adds no handler; the tree is unchanged but for the         *)
(* namespaces /app and /app/<client>, which the first call of a session     *)
(* that the hub can identify creates when they are missing; in a session    *)
(* that already has its namespace the tree is unchanged.                    *)
C16_AddHandlerOnlyOnIo ==
    [][(Served("io_AddPushHandler") /\ NoIo(ret'.call))
       => /\ ret'.res.killed
          /\ session'[ret'.call.client] = NULL
          /\ ret'.res.href = 0
          /\ nextRef' = nextRef
          /\ \A q \in AllPaths : tree'[q].handlers = tree[q].handlers
          /\ SameTreeBut(SessionNamespaces(ret'.call.client))
          /\ (session[ret'.call.client] # NULL \/ ~ret'.call.idOk) => tree' = tree]_vars

(* The registration of a handler on a Namespace of the client has been      *)
(* refused.                                                                 *)
C16_Witness ==
    /\ ret.call.op = "io_AddPushHandler"
    /\ ret.res.killed
    /\ ret.res.href = 0
    /\ tree[Target(ret.call)].type = "NAMESPACE"
    /\ nextRef = 1

---------------------------------------------------------------------------
(* The Observation that the path of a query names, before the step. *)
ObsOf(call) == FindObservation(tree, [abs |-> call.abs, path |-> call.path])

(* C17 as stated: readBufferJson on an existing Observation with a          *)
(* startAfter that is 0 or negative terminates the caller's session, starts *)
(* no read, writes nothing to the sink and does not hand success to the     *)
(* completion callback.                                                     *)
C17_RejectsZeroAndNegative ==
    [][(Served("query_ReadBufferJson") /\ ObsOf(ret'.call) # NULL
        /\ ~IsNaN(ret'.call.arg) /\ ret'.call.arg.n <= 0)
       => /\ ret'.res.killed
          /\ ~ret'.res.readStarted
          /\ ret'.res.sink = <<>>
          /\ ret'.res.completion # "LE_OK"]_vars

---------------------------------------------------------------------------
(* The step serves a buffer read that names an Observation. *)
ReadOfObservation == Served("query_ReadBufferJson") /\ ObsOf(ret'.call) # NULL

(* The buffer of the Observation that the step's call names, before and     *)
(* after the step.                                                          *)
BufferBefore == tree[<<"obs">> \o ret'.call.path].buffer

BufferAfter == tree'[<<"obs">> \o ret'.call.path].buffer

(* The sample of the step's push as the pipeline commits it. *)
Committed == Stamped(ret'.call.arg, tree'[<<"obs">> \o ret'.call.path].current.ts)

(* C18: a buffer read with a positive or NaN startAfter is accepted and     *)
(* writes the retained samples that pass the startAfter filter, in the      *)
(* order in which they were pushed, whatever their timestamps; with NaN it  *)
(* writes the whole buffer.  A push puts its sample behind the retained     *)
(* ones, which keep their order.                                            *)
C18_ReadInArrivalOrder ==
    [][/\ (ReadOfObservation /\ (IsNaN(ret'.call.arg) \/ ret'.call.arg.n > 0))
          => /\ ~ret'.res.killed
             /\ ret'.res.result = "LE_OK"
             /\ ret'.res.readStarted
             /\ ret'.res.completion = "LE_OK"
             /\ ret'.res.sink =
                   <<"[">> \o JsonElements(SamplesAfter(tree[ObsOf(ret'.call)].buffer,
                                                        ret'.call.arg, ret'.call.tsIn))
                     \o <<"]">>
             /\ tree' = tree
       /\ (ReadOfObservation /\ IsNaN(ret'.call.arg))
          => ret'.res.sink
               = <<"[">> \o JsonElements(tree[ObsOf(ret'.call)].buffer) \o <<"]">>
       /\ Served("admin_Push")
          => /\ BufferAfter # <<>>
             /\ BufferAfter[Len(BufferAfter)] = Committed
             /\ \E k \in 0..Len(BufferBefore) :
                    SubSeq(BufferAfter, 1, Len(BufferAfter) - 1)
                      = SubSeq(BufferBefore, k + 1, Len(BufferBefore))]_vars

(* A read with NaN has written a buffer of two samples of which the first   *)
(* pushed has the later timestamp.                                          *)
C18_Witness ==
    /\ ret.call.op = "query_ReadBufferJson"
    /\ IsNaN(ret.call.arg)
    /\ ret.res.readStarted
    /\ Len(tree[<<"obs", "o">>].buffer) = 2
    /\ tree[<<"obs", "o">>].buffer[1].ts > tree[<<"obs", "o">>].buffer[2].ts
    /\ ret.res.sink = <<"[">> \o JsonObject(tree[<<"obs", "o">>].buffer[1]) \o <<",">>
                        \o JsonObject(tree[<<"obs", "o">>].buffer[2]) \o <<"]">>

---------------------------------------------------------------------------
(* No Observation holds more samples than the size cap of its buffer. *)
BufferWithinCap ==
    \A q \in AllPaths :
        tree[q].type = "OBSERVATION" => Len(tree[q].buffer) <= tree[q].maxCount

(* C19: the buffer of an Observation never holds more samples than its size *)
(* cap, and they are the most recent pushes: a push to a buffer that is not *)
(* full appends its sample, a push to a full buffer drops exactly the       *)
(* oldest sample and appends its own.                                       *)
C19_BufferKeepsMostRecent ==
    [][/\ BufferWithinCap'
       /\ Served("admin_Push")
          => LET cap == tree[<<"obs">> \o ret'.call.path].maxCount
             IN  /\ cap = tree'[<<"obs">> \o ret'.call.path].maxCount
                 /\ Len(BufferBefore) < cap
                    => BufferAfter = Append(BufferBefore, Committed)
                 /\ Len(BufferBefore) = cap
                    => BufferAfter = Append(Tail(BufferBefore), Committed)
       /\ ret'.call.op \notin {"admin_Push", "admin_CreateObs"}
          => \A q \in AllPaths : tree'[q].buffer = tree[q].buffer]_vars

(* A push to a full buffer of the largest cap has dropped the oldest        *)
(* sample, which differed from the one that is now the oldest.              *)
C19_Witness ==
    /\ ret.call.op = "admin_Push"
    /\ tree[<<"obs", "o">>].maxCount = MaxBuffer
    /\ Len(tree[<<"obs", "o">>].buffer) = MaxBuffer
    /\ opCount = MaxBuffer + 2
    /\ tree[<<"obs", "o">>].buffer[1].ts # tree[<<"obs", "o">>].buffer[MaxBuffer].ts

---------------------------------------------------------------------------
(* The values of the numeric samples of the buffer with a timestamp at or   *)
(* after the start time that the call's argument stands for.                *)
Window(call) ==
    LET kept == SelectSeq(tree[ObsOf(call)].buffer,
                          LAMBDA sample : /\ sample.kind = "NUMERIC"
                                          /\ sample.ts >= ResolvedStart(call.arg, call.tsIn))
    IN  [i \in DOMAIN kept |-> kept[i].n]

RECURSIVE SumOf(_)
SumOf(values) == IF values = <<>> THEN 0 ELSE Head(values) + SumOf(Tail(values))

(* The step serves an aggregate over a window that holds numeric samples. *)
AggregateOverSamples(op) ==
    /\ Served(op)
    /\ ObsOf(ret'.call) # NULL
    /\ ~IsNaN(ret'.call.arg)
    /\ Window(ret'.call) # <<>>

(* C20 as stated: over a window that holds numeric samples getMin returns   *)
(* the smallest value, getMax the largest and getMean the arithmetic mean.  *)
C20_MinMaxMean ==
    [][/\ AggregateOverSamples("query_GetMin")
          => /\ ~ret'.res.nan
             /\ \E i \in DOMAIN Window(ret'.call) : ret'.res.val.n = Window(ret'.call)[i]
             /\ \A i \in DOMAIN Window(ret'.call) : ret'.res.val.n <= Window(ret'.call)[i]
       /\ AggregateOverSamples("query_GetMax")
          => /\ ~ret'.res.nan
             /\ \E i \in DOMAIN Window(ret'.call) : ret'.res.val.n = Window(ret'.call)[i]
             /\ \A i \in DOMAIN Window(ret'.call) : ret'.res.val.n >= Window(ret'.call)[i]
       /\ AggregateOverSamples("query_GetMean")
          => /\ ~ret'.res.nan
             /\ ret'.res.val.n * Len(Window(ret'.call)) = SumOf(Window(ret'.call))]_vars

---------------------------------------------------------------------------
Aggregates == {"query_GetMin", "query_GetMax", "query_GetMean", "query_GetStdDev"}

(* C21: getMin, getMax, getMean and getStdDev return NaN when the path      *)
(* names no Observation, when the buffer is empty and when the window holds *)
(* no numeric sample; none of them changes the tree, a session or kills     *)
(* its caller.                                                              *)
C21_AggregatesNaN ==
    [][\A op \in Aggregates :
          Served(op)
          => /\ (\/ ObsOf(ret'.call) = NULL
                 \/ tree[ObsOf(ret'.call)].buffer = <<>>
                 \/ (~IsNaN(ret'.call.arg) /\ Window(ret'.call) = <<>>))
                => ret'.res.nan
             /\ tree' = tree
             /\ session' = session
             /\ ~ret'.res.killed]_vars

(* getStdDev has returned NaN for an Observation whose buffer holds a       *)
(* sample, none at or after the start time.                                 *)
C21_Witness ==
    /\ ret.call.op = "query_GetStdDev"
    /\ ret.res.nan
    /\ ~IsNaN(ret.call.arg)
    /\ tree[<<"obs", "o">>].buffer # <<>>
    /\ \A i \in DOMAIN tree[<<"obs", "o">>].buffer :
          tree[<<"obs", "o">>].buffer[i].ts < ResolvedStart(ret.call.arg, ret.call.tsIn)

---------------------------------------------------------------------------
(* The Inputs and Outputs that client c owns in tree t. *)
Owned(t, c) ==
    {q \in AllPaths : IsPrefix(AppNs(c), q) /\ t[q].type \in {"INPUT", "OUTPUT"}}

(* C22 as stated: a createInput or createOutput for a new path by a client  *)
(* that owns ResourceCap resources returns NoMemory and creates nothing,    *)
(* and no client ever owns more than ResourceCap resources.                 *)
C22_NoMemoryAtCap ==
    [][/\ \A op \in CreateOps :
            (Served(op) /\ Resolves(ret'.call) /\ NoIo(ret'.call)
             /\ Cardinality(Owned(tree, ret'.call.client)) >= ResourceCap)
            => (ret'.res.result = "LE_NO_MEMORY" /\ tree' = tree)
       /\ \A c \in Clients : Cardinality(Owned(tree', c)) <= ResourceCap]_vars

---------------------------------------------------------------------------
(* The step serves client c a call of the client I/O API. *)
IoCallOf(c) ==
    opCount' = opCount + 1 /\ ret'.call.client = c /\ ret'.call.op # "sessionClose"

---------------------------------------------------------------------------
(* C24 as stated: a client I/O call in a session without cached namespace   *)
(* whose client cannot be identified terminates the session, leaves the     *)
(* tree as it was, caches nothing and looks nothing up relative to the      *)
(* missing namespace (the hub keeps running with defined behaviour).        *)
C24_UnidentifiedClientHarmless ==
    [][\A c \in Clients :
          (IoCallOf(c) /\ session[c] = NULL /\ ~ret'.call.idOk)
          => /\ ret'.res.killed
             /\ tree' = tree
             /\ session'[c] = NULL
             /\ hub' = "running"]_vars

---------------------------------------------------------------------------
(* The entry that a create call asks for. *)
Asked(call) ==
    IF call.op = "io_CreateInput" THEN InputEntry(call.kind, call.units)
    ELSE OutputEntry(call.kind, call.units)

(* C25: createInput / createOutput on a path that holds a Namespace or a    *)
(* Placeholder returns Ok and changes that entry only, to the role, data    *)
(* type and units asked for: the entry stays where it is, every other entry *)
(* (its children and the caller's namespace included) is as before, and the *)
(* session's cached namespace entry is the same and still exists.           *)
C25_PromotionInPlace ==
    [][\A op \in CreateOps :
          (Served(op) /\ Resolves(ret'.call)
           /\ tree[Target(ret'.call)].type \in {"NAMESPACE", "PLACEHOLDER"})
          => /\ ret'.res.result = "LE_OK"
             /\ ~ret'.res.killed
             /\ tree'[Target(ret'.call)] = Asked(ret'.call)
             /\ \A q \in AllPaths \ {Target(ret'.call)} : tree'[q] = tree[q]
             /\ Children(tree', Target(ret'.call)) = Children(tree, Target(ret'.call))
             /\ session'[ret'.call.client] = AppNs(ret'.call.client)
             /\ (session[ret'.call.client] # NULL
                 => session'[ret'.call.client] = session[ret'.call.client])]_vars

(* A Namespace whose child is an Input with a default has been promoted to  *)
(* an Output; the child and its default are still there.                    *)
C25_Witness ==
    /\ ret.call.op = "io_CreateOutput"
    /\ ret.res.result = "LE_OK"
    /\ ret.call.path = X
    /\ opCount = 4
    /\ tree[Target(ret.call)].type = "OUTPUT"
    /\ tree[AppNs(ret.call.client) \o XY].type = "INPUT"
    /\ tree[AppNs(ret.call.client) \o XY].default # NoSample

---------------------------------------------------------------------------
---------------------------------------------------------------------------
(* The role changes common to both readings of the transition list: an      *)
(* entry keeps its role, a new entry is materialised, or a Namespace or     *)
(* Placeholder is promoted.                                                 *)
Promotion(a, b) ==
    \/ a = b
    \/ a = "NONE"
    \/ a = "NAMESPACE" /\ b \in {"PLACEHOLDER", "INPUT", "OUTPUT", "OBSERVATION"}
    \/ a = "PLACEHOLDER" /\ b \in {"INPUT", "OUTPUT", "OBSERVATION"}

(* The step is a call of the client I/O API. *)
ClientStep == \E c \in Clients : IoCallOf(c)

(* No client call changes or removes an Observation. *)
ObservationsUntouched ==
    ClientStep => \A q \in AllPaths : tree[q].type = "OBSERVATION" => tree'[q] = tree[q]

---------------------------------------------------------------------------
(* On an Output, markOptional clears the mandatory flag of that entry and   *)
(* changes nothing else; the caller is not terminated.                      *)
MarkOptionalOnOutput ==
    (Served("io_MarkOptional") /\ Resolves(ret'.call)
     /\ tree[Target(ret'.call)].type = "OUTPUT")
    => /\ ~ret'.res.killed
       /\ tree' = [tree EXCEPT ![Target(ret'.call)].mandatory = FALSE]

(* An Output is optional only if it was before the step or the step is a    *)
(* markOptional on it: Outputs are created mandatory and stay so.           *)
MandatoryUntilMarked ==
    \A q \in AllPaths :
        (tree'[q].type = "OUTPUT" /\ ~tree'[q].mandatory)
        => \/ tree[q].type = "OUTPUT" /\ ~tree[q].mandatory
           \/ Served("io_MarkOptional") /\ q = Target(ret'.call)

(* C28 as stated: markOptional on a path that does not exist or holds an    *)
(* Input terminates the session and leaves the tree as it was; on an Output *)
(* it makes the entry optional and changes nothing else; an Output is       *)
(* mandatory from creation until then.                                      *)
C28_MarkOptionalTreeUnchanged ==
    [][/\ ((Served("io_MarkOptional") /\ tree[Target(ret'.call)].type \in {"NONE", "INPUT"})
           => (ret'.res.killed /\ tree' = tree))
       /\ MarkOptionalOnOutput
       /\ MandatoryUntilMarked]_vars

(* C28, amended: as stated, except that a refused markOptional that is the  *)
(* first call of a session the hub can identify leaves the namespaces /app  *)
(* and /app/<client> behind when they were missing; no flag and no other    *)
(* entry changes.  Any entry that is no Output is refused.                  *)
C28_MarkOptionalOnlyOutputs ==
    [][/\ ((Served("io_MarkOptional") /\ tree[Target(ret'.call)].type # "OUTPUT")
           => /\ ret'.res.killed
              /\ session'[ret'.call.client] = NULL
              /\ SameTreeBut(SessionNamespaces(ret'.call.client))
              /\ ((session[ret'.call.client] # NULL \/ ~ret'.call.idOk) => tree' = tree)
              /\ (tree[Target(ret'.call)].type = "INPUT" => tree' = tree))
       /\ MarkOptionalOnOutput
       /\ MandatoryUntilMarked]_vars

(* An Output has been marked optional; its child is still there. *)
C28_Witness ==
    /\ ret.call.op = "io_MarkOptional"
    /\ ~ret.res.killed
    /\ tree[Target(ret.call)].type = "OUTPUT"
    /\ ~tree[Target(ret.call)].mandatory
    /\ Children(tree, Target(ret.call)) # {}

---------------------------------------------------------------------------
(* set<K>Default on an Input or Output of another data type terminates the  *)
(* session and leaves the whole tree (default and current value included)   *)
(* as it was.                                                               *)
WrongKindDefaultRefused ==
    (Served("io_SetDefault") /\ IsIo(ret'.call)
     /\ tree[Target(ret'.call)].dataType # ret'.call.kind)
    => /\ ret'.res.killed
       /\ session'[ret'.call.client] = NULL
       /\ tree' = tree

(* C29 as stated: set<K>Default on an Input or Output of another data type, *)
(* and on a path that holds no Input or Output, terminates the session and  *)
(* leaves the tree as it was.                                               *)
C29_DefaultRefusedTreeUnchanged ==
    [][/\ WrongKindDefaultRefused
       /\ ((Served("io_SetDefault") /\ NoIo(ret'.call))
           => (ret'.res.killed /\ tree' = tree))]_vars

(* C29, amended: as stated, except that a set<K>Default refused for a path  *)
(* without Input or Output leaves the namespaces /app and /app/<client>     *)
(* behind when it is the first call of a session the hub can identify and   *)
(* they were missing; no default, value or other entry changes.             *)
C29_WrongDefaultRefused ==
    [][/\ WrongKindDefaultRefused
       /\ ((Served("io_SetDefault") /\ NoIo(ret'.call))
           => /\ ret'.res.killed
              /\ session'[ret'.call.client] = NULL
              /\ SameTreeBut(SessionNamespaces(ret'.call.client))
              /\ ((session[ret'.call.client] # NULL \/ ~ret'.call.idOk) => tree' = tree))]_vars

(* A String default has been refused on a Numeric Output that holds a       *)
(* default and a current value; both are still there.                       *)
C29_Witness ==
    /\ ret.call.op = "io_SetDefault"
    /\ ret.call.kind = "STRING"
    /\ ret.res.killed
    /\ tree[Target(ret.call)].type = "OUTPUT"
    /\ tree[Target(ret.call)].dataType = "NUMERIC"
    /\ tree[Target(ret.call)].default # NoSample
    /\ tree[Target(ret.call)].current # NoSample

---------------------------------------------------------------------------
(* Specification SpecStamp: the timestamp of pushed samples.  One client    *)
(* creates a Trigger or Boolean Input at x, registers Trigger and Boolean   *)
(* handlers, pushes triggers and Boolean samples with timestamp 0 or 5 and  *)
(* reads with getTimestamp and getBoolean, its timestamp variable holding 0 *)
(* or 9 before the call; anyone queries /app/a/x; the administrator creates *)
(* the buffered Observation /obs/o and pushes to it.                        *)

StampEnv ==
    [paths |-> {X}, types |-> {"TRIGGER", "BOOLEAN"}, units |-> {<<>>},
     handlerTypes |-> {"TRIGGER", "BOOLEAN"}, maxHandlers |-> MaxFanOut,
     stamps |-> {0, 5}, now |-> {100}, garbage |-> {0, 9}, sizes |-> {2},
     queryPaths |-> {AbsPath(AppNs("a") \o X)}, caps |-> {MaxBuffer}]

NextStamp ==
    \/ \E c \in Clients :
        \/ CreateInput(c, StampEnv)
        \/ PushTrigger(c, StampEnv)
        \/ PushBoolean(c, StampEnv)
        \/ AddHandler(c, StampEnv)
        \/ GetTimestamp(c, StampEnv)
        \/ GetBoolean(c, StampEnv)
    \/ QueryGetTimestamp(StampEnv)
    \/ QueryGetBoolean(StampEnv)
    \/ CreateObs(StampEnv)
    \/ AdminPushNumeric(StampEnv)

SpecStamp == Init /\ [][NextStamp]_vars

(* The step is a push, by a client or by the administrator, that the hub    *)
(* accepts; the entry it goes to.                                           *)
PushStep == (Served("io_Push") \/ Served("admin_Push")) /\ ~ret'.res.killed

PushedEntry ==
    IF ret'.call.op = "admin_Push" THEN <<"obs">> \o ret'.call.path
    ELSE Target(ret'.call)

(* The entry that a value read names. *)
ReadEntry ==
    IF ret'.call.op \in QueryReads THEN ret'.call.path ELSE Target(ret'.call)

(* An accepted push with timestamp 0 leaves its sample, stamped with the    *)
(* wall-clock, as the current value; every handler invoked has seen that    *)
(* very sample, and so has the buffer of a buffered Observation.            *)
StampedAtEntry ==
    (PushStep /\ ret'.call.arg.ts = 0)
    => LET e == tree'[PushedEntry]
       IN  /\ e.current.ts \in StampEnv.now
           /\ e.current.ts # 0
           /\ e.current = [ret'.call.arg EXCEPT !.ts = e.current.ts]
           /\ \A i \in DOMAIN ret'.res.called : ret'.res.called[i].sample = e.current
           /\ ((e.type = "OBSERVATION" /\ e.maxCount > 0)
               => (e.buffer # <<>> /\ e.buffer[Len(e.buffer)] = e.current))

(* No current value and no buffered sample has timestamp 0. *)
NoZeroStored ==
    \A q \in AllPaths :
        /\ (tree'[q].current # NoSample => tree'[q].current.ts # 0)
        /\ \A i \in DOMAIN tree'[q].buffer : tree'[q].buffer[i].ts # 0

(* A value read answered with Ok on a resource that holds a pushed sample   *)
(* hands the caller a timestamp other than 0.                               *)
ReadsNonZero(ops) ==
    \A op \in ops :
        (Served(op) /\ ret'.res.result = "LE_OK" /\ ~ret'.res.killed
         /\ ReadEntry \in AllPaths /\ tree[ReadEntry].current # NoSample)
        => ret'.res.tsOut # 0

(* C30 as stated: a push with timestamp 0 is stamped once with the          *)
(* wall-clock: the current value, the sample every handler sees and the     *)
(* buffered copy carry the same non-zero timestamp, and no read of a        *)
(* resource that holds a pushed sample returns timestamp 0.                 *)
C30_ZeroStampedOnce ==
    [][/\ StampedAtEntry
       /\ NoZeroStored
       /\ ReadsNonZero(IoReads \cup QueryReads)]_vars

---------------------------------------------------------------------------
(* Specification SpecAsync: buffer reads that finish after the call has     *)
(* returned.  The administrator creates the buffered Observation /obs/o and *)
(* pushes to it; anyone starts reads of /obs/o and of /obs (which is no     *)
(* Observation) with a negative, a positive and a NaN startAfter; the hub's *)
(* event loop finishes each started read, writing its sink and calling its  *)
(* completion callback.                                                     *)

AsyncEnv ==
    [now |-> {SECONDS_IN_30_YEARS + 100},
     stamps |-> {SECONDS_IN_30_YEARS + 95},
     caps |-> {MaxBuffer},
     obsPaths |-> {AbsPath(<<"obs", "o">>), AbsPath(<<"obs">>)},
     startAfters |-> {Seconds(0 - 1), Seconds(3), NaN}]

(* A read that resTree_ReadBufferJson has started: nothing written yet, the *)
(* completion callback not yet called.                                      *)
StartedRead(obsEntry, startAfter, now) ==
    [obs |-> obsEntry, startAfter |-> startAfter, now |-> now,
     sink |-> <<>>, completions |-> 0, status |-> "NONE"]

(* query_ReadBufferJson returns once the read is started. *)
StartReadBufferJson(E) ==
    \E q \in E.obsPaths, startAfter \in E.startAfters, now \in E.now :
        LET o == query_ReadBufferJson(q, startAfter, now)
        IN  /\ Serving
            /\ tree' = o.t
            /\ opCount' = opCount + 1
            /\ ret' = [call |-> Call("query_ReadBufferJson", "none", q.abs, q.path, "NONE",
                                     <<>>, startAfter, 0, now, TRUE),
                       res |-> [o.res EXCEPT !.sink = <<>>, !.completion = "NONE"]]
            /\ reads' = IF o.res.readStarted
                        THEN Append(reads, StartedRead(FindObservation(tree, q), startAfter, now))
                        ELSE reads
            /\ UNCHANGED <<session, nextRef, hub, dispatch>>

(* The event loop finishes a started read: the samples go to the sink and   *)
(* the completion callback is called with the status.                       *)
FinishRead ==
    \E i \in DOMAIN reads :
        LET read == resTree_ReadBufferJson(tree, reads[i].obs, reads[i].startAfter,
                                           reads[i].now)
        IN  /\ hub = "running"
            /\ reads[i].completions = 0
            /\ reads' = [reads EXCEPT ![i].sink = read.sink,
                                      ![i].status = read.completion,
                                      ![i].completions = @ + 1]
            /\ UNCHANGED <<tree, session, nextRef, hub, opCount, ret, dispatch>>

NextAsync ==
    \/ CreateObs(AsyncEnv)
    \/ AdminPushNumeric(AsyncEnv)
    \/ StartReadBufferJson(AsyncEnv)
    \/ FinishRead

SpecAsync == Init /\ [][NextAsync]_vars /\ WF_vars(FinishRead)

(* What a readBufferJson step does to the started reads: a call answered Ok *)
(* without termination starts one read; a call on a path that names no      *)
(* Observation returns NotFound, starts nothing, writes nothing, calls no   *)
(* callback and terminates nobody, whatever its startAfter; and no read     *)
(* ever calls its completion callback a second time.                        *)
ReadStartedOrRefused ==
    /\ (Served("query_ReadBufferJson") /\ ret'.res.result = "LE_OK" /\ ~ret'.res.killed)
       => /\ ObsOf(ret'.call) # NULL
          /\ Len(reads') = Len(reads) + 1
          /\ reads'[Len(reads')].completions = 0
          /\ reads'[Len(reads')].obs = ObsOf(ret'.call)
    /\ (Served("query_ReadBufferJson") /\ ObsOf(ret'.call) = NULL)
       => /\ ret'.res.result = "LE_NOT_FOUND"
          /\ ~ret'.res.killed
          /\ ~ret'.res.readStarted
          /\ ret'.res.sink = <<>>
          /\ ret'.res.completion = "NONE"
          /\ reads' = reads
          /\ tree' = tree
    /\ (Served("query_ReadBufferJson") /\ ret'.res.killed) => reads' = reads
    /\ \A i \in DOMAIN reads :
          /\ i \in DOMAIN reads'
          /\ reads'[i].completions >= reads[i].completions
          /\ reads'[i].completions <= 1

---------------------------------------------------------------------------
(* Specification SpecJson: getJson over the five data types.  One client    *)
(* creates an Input of any data type at x, pushes samples of the five kinds *)
(* and sets String and Json defaults, and reads with getJson into a buffer  *)
(* of 2 or 6 bytes; anyone queries /app/a/x with getJson.                   *)

JsonEnv ==
    [paths |-> {X}, types |-> {"TRIGGER", "BOOLEAN", "NUMERIC", "STRING", "JSON"},
     units |-> {<<>>}, handlerTypes |-> {"BOOLEAN"}, maxHandlers |-> MaxHandlers,
     stamps |-> {5}, now |-> {100}, garbage |-> {9}, sizes |-> {2, 6},
     queryPaths |-> {AbsPath(AppNs("a") \o X)}]

NextJson ==
    \/ \E c \in Clients :
        \/ CreateInput(c, JsonEnv)
        \/ PushTrigger(c, JsonEnv)
        \/ PushBoolean(c, JsonEnv)
        \/ PushNumeric(c, JsonEnv)
        \/ PushString(c, JsonEnv)
        \/ PushJson(c, JsonEnv)
        \/ SetStringDefault(c, JsonEnv)
        \/ SetJsonDefault(c, JsonEnv)
        \/ GetJson(c, JsonEnv)
    \/ QueryGetJson(JsonEnv)

SpecJson == Init /\ [][NextJson]_vars

(* The step serves a getJson of either API, answered, on an Input or Output *)
(* that has a current value or a default.                                   *)
GetJsonOfValue ==
    /\ \/ Served("io_GetJson") /\ Resolves(ret'.call)
       \/ Served("query_GetJson")
    /\ ReadEntry \in AllPaths
    /\ tree[ReadEntry].type \in {"INPUT", "OUTPUT"}
    /\ HasValue(tree[ReadEntry])

(* C32: getJson of either API on a resource of any data type that has a     *)
(* current value or a default returns Ok with the JSON projection of that   *)
(* value when it fits the caller's buffer and Overflow when it does not;    *)
(* never FormatError, never a termination, and the tree is as before.       *)
C32_GetJsonAnyKind ==
    [][GetJsonOfValue
       => LET e == tree[ReadEntry]
              read == IF e.current # NoSample THEN e.current ELSE e.default
              text == JsonText(read, e.dataType)
          IN  /\ ~ret'.res.killed
              /\ ret'.res.result \in {"LE_OK", "LE_OVERFLOW"}
              /\ (ret'.res.result = "LE_OK") = (Len(text) + 1 <= ret'.call.size)
              /\ (ret'.res.result = "LE_OK" => ret'.res.val.s = text)
              /\ read.kind = e.dataType
              /\ tree' = tree]_vars

(* The client has read a String Input with getJson: the string in quotes. *)
C32_Witness ==
    /\ ret.call.op = "io_GetJson"
    /\ ret.res.result = "LE_OK"
    /\ tree[Target(ret.call)].dataType = "STRING"
    /\ tree[Target(ret.call)].current.s = <<"s", "t">>
    /\ ret.res.val.s = <<"\"", "s", "t", "\"">>

---------------------------------------------------------------------------
(* The step ends a client session. *)
SessionEnds == opCount' = opCount + 1 /\ ret'.call.op = "sessionClose"

(* The value that a read of entry e returns. *)
ValueOf(e) == IF e.current # NoSample THEN e.current ELSE e.default

(* C33: the end of a session clears that session's cached namespace and     *)
(* leaves the whole tree as it was; the first call of the client's next     *)
(* session, when /app/<client> exists, caches that same entry again and     *)
(* creates nothing, and a read in it finds every Input and Output that is   *)
(* there, with the value and timestamp it holds.                            *)
C33_SessionEndKeepsSubtree ==
    [][/\ (SessionEnds
           => /\ tree' = tree
              /\ session'[ret'.call.client] = NULL
              /\ hub' = hub)
       /\ \A c \in Clients :
             (IoCallOf(c) /\ session[c] = NULL /\ ret'.call.idOk /\ Exists(tree, AppNs(c)))
             => /\ hub' = "running"
                /\ (~ret'.res.killed => session'[c] = AppNs(c))
                /\ \A q \in AllPaths :
                      (~Exists(tree, q) /\ q # Target(ret'.call)) => ~Exists(tree', q)
                /\ ((ret'.call.op \in IoReads)
                    => /\ tree' = tree
                       /\ (IsIo(ret'.call) = (ret'.res.result # "LE_NOT_FOUND"))
                       /\ ((ret'.call.op = "io_GetTimestamp" /\ IsIo(ret'.call)
                            /\ HasValue(tree[Target(ret'.call)]))
                           => /\ ret'.res.result = "LE_OK"
                              /\ ret'.res.tsOut = ValueOf(tree[Target(ret'.call)]).ts))]_vars

(* A session has ended: its cached namespace is gone, and the Input that    *)
(* the client created and pushed to is still in the tree with its value.    *)
C33_Witness ==
    /\ ret.call.op = "sessionClose"
    /\ session[ret.call.client] = NULL
    /\ tree[AppNs(ret.call.client) \o X].type = "INPUT"
    /\ tree[AppNs(ret.call.client) \o X].current.ts = 5


---------------------------------------------------------------------------
(* Specification SpecDispatch: a fan-out taken one handler at a time.  One  *)
(* client creates a Trigger Input at x, registers Trigger and Boolean push  *)
(* handlers on it and pushes triggers; the hub walks the handler list, and  *)
(* a handler that is running may remove any handler.                        *)

DispatchEnv ==
    [paths |-> {X}, types |-> {"TRIGGER"}, units |-> {<<>>},
     handlerTypes |-> {"TRIGGER", "BOOLEAN"}, maxHandlers |-> MaxFanOut,
     stamps |-> {5}, now |-> {100}]

(* The handlers with these references are unlinked from their lists. *)
Compact(t, refs) ==
    [q \in AllPaths |->
        [t[q] EXCEPT !.handlers = SelectSeq(@, LAMBDA h : h.ref \notin refs)]]

(* The removal unlinking the handler at once, fan-out or not. *)
handler_Remove_UnlinkNow(t, d, ref) ==
    [t |-> resTree_RemovePushHandler(t, ref), d |-> d]

(* The removal of a handler: unlinked at once outside a fan-out; inside     *)
(* one the list is left alone and the removal is kept for the end of the    *)
(* dispatch.                                                                *)
handler_Remove(t, d, ref) ==
    IF d = NoDispatch
    THEN [t |-> resTree_RemovePushHandler(t, ref), d |-> d]
    ELSE [t |-> t, d |-> [d EXCEPT !.removed = @ \cup {ref}]]

(* io_PushTrigger up to the commit of the sample; the fan-out begins at the *)
(* head of the entry's handler list.                                        *)
BeginPush(c, E) ==
    \E path \in E.paths, ts \in E.stamps, idOk \in IdChoices(c), now \in E.now :
        LET fr == FindResource(c, path, idOk)
            o == io_PushTrigger(c, path, ts, idOk, now)
        IN  /\ Serving
            /\ ~Dangling(c)
            /\ tree' = o.t
            /\ session' = [session EXCEPT ![c] = IF o.res.killed THEN NULL ELSE o.ctx]
            /\ hub' = IF o.undefined THEN "undefined" ELSE hub
            /\ opCount' = opCount + 1
            /\ ret' = [call |-> Call("io_Push", c, FALSE, path, "TRIGGER", <<>>,
                                     dataSample_CreateTrigger(ts), 0, 0, idOk),
                       res |-> [o.res EXCEPT !.called = <<>>]]
            /\ dispatch' = IF fr.ref # NULL /\ ~o.res.killed /\ ~o.undefined
                           THEN [entry |-> fr.ref, kind |-> "TRIGGER", pos |-> 1,
                                 invoked |-> <<>>, removed |-> {}]
                           ELSE NoDispatch
            /\ UNCHANGED <<nextRef, reads>>

(* The fan-out reaches the next handler of the list and invokes it when it  *)
(* expects the kind pushed and its removal is not pending.                  *)
InvokeNext ==
    /\ hub = "running"
    /\ dispatch # NoDispatch
    /\ dispatch.pos <= Len(tree[dispatch.entry].handlers)
    /\ LET h == tree[dispatch.entry].handlers[dispatch.pos]
       IN  dispatch' = [dispatch EXCEPT
                           !.pos = @ + 1,
                           !.invoked = IF h.kind = dispatch.kind /\ h.ref \notin dispatch.removed
                                       THEN Append(@, h.ref)
                                       ELSE @]
    /\ UNCHANGED <<tree, session, nextRef, hub, opCount, ret, reads>>

(* The handler that is running calls io_Remove<Type>PushHandler. *)
RemoveInDispatch(E) ==
    \E handlerRef \in 1..E.maxHandlers :
        LET r == handler_Remove(tree, dispatch, handlerRef)
        IN  /\ hub = "running"
            /\ dispatch # NoDispatch
            /\ dispatch.invoked # <<>>
            /\ handlerRef \notin dispatch.removed
            /\ tree' = r.t
            /\ dispatch' = r.d
            /\ UNCHANGED <<session, nextRef, hub, opCount, ret, reads>>

(* The fan-out has passed the end of the list: the handlers whose removal   *)
(* is pending are unlinked and the hub returns to its event loop.           *)
EndDispatch ==
    /\ hub = "running"
    /\ dispatch # NoDispatch
    /\ dispatch.pos > Len(tree[dispatch.entry].handlers)
    /\ tree' = Compact(tree, dispatch.removed)
    /\ dispatch' = NoDispatch
    /\ UNCHANGED <<session, nextRef, hub, opCount, ret, reads>>

NextDispatch ==
    \/ \E c \in Clients :
        \/ CreateInput(c, DispatchEnv)
        \/ AddHandler(c, DispatchEnv)
        \/ BeginPush(c, DispatchEnv)
    \/ RemoveHandler(DispatchEnv)
    \/ InvokeNext
    \/ RemoveInDispatch(DispatchEnv)
    \/ EndDispatch

SpecDispatch == Init /\ [][NextDispatch]_vars

(* A fan-out is in progress. *)
DispatchActive == dispatch # NoDispatch

(* How often x occurs in the sequence. *)
Times(seq, x) == Cardinality({i \in DOMAIN seq : seq[i] = x})

(* C34: removing a handler during a fan-out does not disturb that dispatch: *)
(* while the dispatch lasts no handler list changes and no invocation made  *)
(* is taken back; when it ends, every handler of the list that expects the  *)
(* kind pushed and was not removed has been invoked exactly once, and the   *)
(* removed handlers are unlinked; a later dispatch invokes only handlers    *)
(* that are linked and not being removed, and an unlinked handler never     *)
(* comes back.                                                              *)
C34_RemovalDuringFanOut ==
    [][/\ ((DispatchActive /\ DispatchActive')
           => /\ \A q \in AllPaths : tree'[q].handlers = tree[q].handlers
              /\ IsPrefix(dispatch.invoked, dispatch'.invoked)
              /\ dispatch.removed \subseteq dispatch'.removed)
       /\ ((DispatchActive /\ ~DispatchActive')
           => /\ \A i \in DOMAIN tree[dispatch.entry].handlers :
                    LET h == tree[dispatch.entry].handlers[i]
                    IN  (h.kind = dispatch.kind /\ h.ref \notin dispatch.removed)
                        => Times(dispatch.invoked, h.ref) = 1
              /\ \A r \in dispatch.removed : r \notin AllHandlerRefs(tree')
              /\ \A q \in AllPaths :
                    tree'[q] = [tree[q] EXCEPT !.handlers = tree'[q].handlers])
       /\ (DispatchActive'
           => \A i \in DOMAIN dispatch'.invoked :
                 /\ dispatch'.invoked[i] \in AllHandlerRefs(tree')
                 /\ (i > Len(dispatch.invoked) => dispatch'.invoked[i] \notin dispatch.removed))
       /\ \A r \in 1..(nextRef - 1) :
             (r \notin AllHandlerRefs(tree)) => (r \notin AllHandlerRefs(tree'))]_vars

(* The first handler invoked has removed itself while the fan-out went on,  *)
(* and the second handler has been invoked all the same; the list still     *)
(* holds both.                                                              *)
C34_Witness ==
    /\ DispatchActive
    /\ dispatch.removed = {1}
    /\ dispatch.invoked = <<1, 2>>
    /\ Len(tree[dispatch.entry].handlers) = 2


---------------------------------------------------------------------------
(* Specification SpecFacade: the whole Query API over a tree that holds an  *)
(* Input and Observations.  One client creates a Numeric Input at x and     *)
(* pushes to it; the administrator creates Observations at /obs/o and       *)
(* /obs/o/p and pushes to them; every function of the Query API is called   *)
(* with paths that lead to an Observation, a Namespace, an Input and to     *)
(* nothing, absolute and not.                                               *)

FacadeEnv ==
    [paths |-> {X}, types |-> {"NUMERIC"}, units |-> {<<>>},
     now |-> {SECONDS_IN_30_YEARS + 100},
     stamps |-> {SECONDS_IN_30_YEARS + 95},
     garbage |-> {9}, sizes |-> {3}, caps |-> {MaxBuffer},
     startAfters |-> {Seconds(0 - 1), Seconds(3), NaN},
     obsPaths |-> {AbsPath(<<"obs", "o">>), NonAbsPath(<<"o">>),
                   AbsPath(<<"obs", "o", "p">>), NonAbsPath(<<"o", "p">>),
                   AbsPath(<<"obs">>), AbsPath(AppNs("a") \o X),
                   NonAbsPath(AppNs("a") \o X), AbsPath(AppNs("a"))},
     queryPaths |-> {AbsPath(<<"obs", "o">>), NonAbsPath(<<"o">>),
                     AbsPath(<<"obs">>), AbsPath(AppNs("a") \o X),
                     AbsPath(AppNs("a"))}]

NextFacade ==
    \/ \E c \in Clients :
        \/ CreateInput(c, FacadeEnv)
        \/ PushNumeric(c, FacadeEnv)
    \/ CreateObs(FacadeEnv)
    \/ CreateObsBelow(FacadeEnv)
    \/ AdminPushNumeric(FacadeEnv)
    \/ ReadBufferJson(FacadeEnv)
    \/ GetMin(FacadeEnv)
    \/ GetMax(FacadeEnv)
    \/ GetMean(FacadeEnv)
    \/ GetStdDev(FacadeEnv)
    \/ QueryGetDataType(FacadeEnv)
    \/ QueryGetUnits(FacadeEnv)
    \/ QueryGetTimestamp(FacadeEnv)
    \/ QueryGetBoolean(FacadeEnv)
    \/ QueryGetNumeric(FacadeEnv)
    \/ QueryGetString(FacadeEnv)
    \/ QueryGetJson(FacadeEnv)

SpecFacade == Init /\ [][NextFacade]_vars

(* The functions of the Query API. *)
QueryOps ==
    {"query_ReadBufferJson", "query_GetMin", "query_GetMax", "query_GetMean",
     "query_GetStdDev", "query_GetDataType", "query_GetUnits", "query_GetTimestamp",
     "query_Get", "query_GetJson"}

(* This step serves a call of the Query API. *)
QueryStep == opCount' = opCount + 1 /\ ret'.call.op \in QueryOps

(* C35: the operations of the Query API are pure reads: readBufferJson,    *)
(* getMin, getMax, getMean, getStdDev, getDataType, getUnits, getTimestamp, *)
(* getBoolean, getNumeric, getString and getJson, with any path and any     *)
(* outcome, leave the tree, the sessions and the handler references as      *)
(* they were.                                                               *)
C35_QueryOpsArePureReads ==
    [][QueryStep
       => /\ tree' = tree
          /\ session' = session
          /\ nextRef' = nextRef
          /\ hub' = hub]_vars

(* readBufferJson has read a buffered sample of the Observation /obs/o,     *)
(* which still holds it.                                                    *)
C35_Witness ==
    /\ ret.call.op = "query_ReadBufferJson"
    /\ ret.res.result = "LE_OK"
    /\ ret.res.readStarted
    /\ Len(ret.res.sink) > 2
    /\ tree[<<"obs", "o">>].buffer # <<>>

(* The functions that take an Observation path. *)
ObservationOps ==
    {"query_ReadBufferJson", "query_GetMin", "query_GetMax", "query_GetMean",
     "query_GetStdDev"}

(* The entry that an Observation path names: /obs/... from the root, a path *)
(* without a leading / below /obs, no other absolute path.                  *)
NamedByObsPath(call) ==
    IF call.abs
    THEN IF Len(call.path) >= 2 /\ call.path[1] = "obs" THEN call.path ELSE NULL
    ELSE <<"obs">> \o call.path

(* The Observation that the path of the call names in the tree, if any. *)
ObservationNamed(call) ==
    LET e == NamedByObsPath(call)
    IN  IF e \in AllPaths /\ Exists(tree, e) /\ tree[e].type = "OBSERVATION"
        THEN e ELSE NULL

(* C36: readBufferJson and the aggregates resolve a path beginning with     *)
(* /obs/ from the root and a path without a leading / below /obs; any       *)
(* other absolute path, a path to no entry and a path to an entry that is   *)
(* not an Observation are not found: readBufferJson then returns NotFound,  *)
(* starts no read and writes nothing, an aggregate returns NaN; and a read  *)
(* that is started reads the buffer of the Observation named.               *)
C36_ObservationPathResolution ==
    [][(opCount' = opCount + 1 /\ ret'.call.op \in ObservationOps)
       => LET obs == ObservationNamed(ret'.call)
          IN  /\ ((ret'.call.op = "query_ReadBufferJson")
                  => /\ (obs = NULL) = (ret'.res.result = "LE_NOT_FOUND")
                     /\ (obs # NULL) = (ret'.res.result = "LE_OK")
                     /\ (obs = NULL
                         => /\ ~ret'.res.readStarted
                            /\ ~ret'.res.killed
                            /\ ret'.res.sink = <<>>)
                     /\ (ret'.res.readStarted
                         => ret'.res.sink
                              = resTree_ReadBufferJson(tree, obs, ret'.call.arg,
                                                       ret'.call.tsIn).sink))
              /\ ((ret'.call.op # "query_ReadBufferJson" /\ obs = NULL)
                  => ret'.res.nan)]_vars

(* readBufferJson has been asked for /obs/o while that entry is a Namespace *)
(* (an Observation exists below it) and has answered NotFound.              *)
C36_Witness ==
    /\ ret.call.op = "query_ReadBufferJson"
    /\ ret.call.abs
    /\ ret.call.path = <<"obs", "o">>
    /\ tree[<<"obs", "o">>].type = "NAMESPACE"
    /\ tree[<<"obs", "o", "p">>].type = "OBSERVATION"
    /\ ret.res.result = "LE_NOT_FOUND"

(* Client c reads or deletes at a path of its namespace that holds no      *)
(* Input or Output (nothing, a Namespace or a Placeholder).                 *)
MissedLookup(c) ==
    /\ IoCallOf(c)
    /\ ret'.call.op \in IoReads \cup {"io_DeleteResource"}
    /\ Resolves(ret'.call)
    /\ NoIo(ret'.call)

(* What a missed lookup does besides the inspection of the entry's type:    *)
(* a read answers NotFound, nothing is deleted or demoted, the client is    *)
(* not terminated.                                                          *)
MissAnswered(c) ==
    /\ ((ret'.call.op \in IoReads) => ret'.res.result = "LE_NOT_FOUND")
    /\ SameTreeBut(SessionNamespaces(c))
    /\ ~ret'.res.killed
    /\ hub' = "running"

(* C37: a client lookup that misses is harmless: at a path of the client's  *)
(* namespace that does not exist or holds a Namespace or a Placeholder,     *)
(* getTimestamp, get<K> and getJson return NotFound and deleteResource      *)
(* deletes nothing; the client is not terminated, deleteIO is not called,   *)
(* and the type of an absent entry is not inspected.                        *)
C37_MissedLookupsHarmless ==
    [][\A c \in Clients :
          MissedLookup(c)
          => /\ MissAnswered(c)
             /\ FindResource_TypeArg(c, ret'.call.path, ret'.call.idOk) # NULL]_vars

(* C38: in every reachable state the namespace entry cached on a live      *)
(* client session is /app/<client-id> and exists in the tree: no sequence   *)
(* of creations and deletions leaves a session with a reference to a        *)
(* removed entry.                                                           *)
C38_CachedNamespaceExists ==
    \A c \in Clients :
        session[c] # NULL
        => /\ session[c] = AppNs(c)
           /\ Exists(tree, session[c])
           /\ tree[session[c]].type = "NAMESPACE"


---------------------------------------------------------------------------
(* Specification SpecApps: two apps and the administrator.  Each of the     *)
(* apps a and b creates and deletes a Boolean Input at x in its own         *)
(* namespace, pushes to it, sets its default, marks it optional, reads it   *)
(* and registers a push handler on it; either app removes push handlers by  *)
(* reference; the administrator creates the Observation /obs/o and pushes   *)
(* to it.                                                                   *)

AppsEnv ==
    [paths |-> {X}, types |-> {"BOOLEAN"}, units |-> {<<>>},
     handlerTypes |-> {"BOOLEAN"}, maxHandlers |-> MaxHandlers,
     stamps |-> {5}, now |-> {100}, garbage |-> {9}, sizes |-> {3},
     caps |-> {MaxBuffer}]

(* io_Remove<Type>PushHandler called by client c: the reference goes to     *)
(* resTree_RemovePushHandler as it is; the session is not consulted.        *)
RemoveHandlerBy(c, E) ==
    \E handlerRef \in 1..E.maxHandlers :
        /\ ServePlain(Call("io_RemovePushHandler", c, FALSE, <<>>, "NONE", <<>>,
                           NoSample, handlerRef, 0, TRUE),
                      RemovePushHandler(handlerRef))
        /\ UNCHANGED nextRef

NextApps ==
    \/ \E c \in Apps :
        \/ CreateInput(c, AppsEnv)
        \/ DeleteResource(c, AppsEnv)
        \/ PushBoolean(c, AppsEnv)
        \/ SetBooleanDefault(c, AppsEnv)
        \/ MarkOptional(c, AppsEnv)
        \/ AddHandler(c, AppsEnv)
        \/ RemoveHandlerBy(c, AppsEnv)
        \/ GetBoolean(c, AppsEnv)
        \/ UseDangling(c)
    \/ CreateObs(AppsEnv)
    \/ AdminPushNumeric(AppsEnv)

SpecApps == Init /\ [][NextApps]_vars

(* The entries under /obs/ and under the namespaces of the apps other than  *)
(* c.                                                                       *)
ForeignTo(c) ==
    {q \in AllPaths :
        \/ IsPrefix(<<"obs">>, q) /\ q # <<"obs">>
        \/ \E d \in Apps \ {c} : IsPrefix(AppNs(d), q) /\ q # AppNs(d)}

(* The entries under /obs/ and under other apps' namespaces are as they     *)
(* were, and the hub is still in a defined state.                           *)
ForeignUntouched(c) ==
    /\ hub' = "running"
    /\ \A q \in ForeignTo(c) : tree'[q] = tree[q]

(* C39: namespace isolation: an I/O operation of client c (create, delete,  *)
(* push, set default, mark optional, add or remove handler, get) changes    *)
(* no entry under the namespace of another app or under /obs/ (role, value, *)
(* default, flags and handler list), and what a read returns is what the    *)
(* entry at the path inside /app/c/ holds.                                  *)
C39_NamespaceIsolation ==
    [][\A c \in Apps :
          IoCallOf(c)
          => /\ ForeignUntouched(c)
             /\ ((ret'.call.op \in IoReads /\ Resolves(ret'.call))
                 => (IsIo(ret'.call) = (ret'.res.result # "LE_NOT_FOUND")))]_vars

=============================================================================
